---- MODULE Spec2Model ----
(***************************************************************************)
(* Gallery Pro: the gallery collection manager, its navigation state      *)
(* machine, the media scanner and the record store, modelled from the     *)
(* script of the viewer (classes GalleryDB, GalleryManager, Gallery, App). *)
(*                                                                         *)
(* One action of the model is one run-to-completion segment of a handler: *)
(* from the event (or the resumption of an await on a host promise) to    *)
(* the next await on a host promise.  GalleryDB.saveGallery and           *)
(* GalleryDB.deleteGallery await an IDBRequest, which is not a thenable:  *)
(* their continuations run in the same microtask checkpoint, before any   *)
(* other event handler, so they do not end a segment.  Every other await  *)
(* ends one: queryPermission and requestPermission of a verification,     *)
(* each next() of the enumeration of a directory, getFile of an entry,    *)
(* getFileHandle, createWritable, write and close of an imported file     *)
(* settle in an action of their own, and the handlers of the page run     *)
(* between any two of them.                                                *)
(***************************************************************************)
EXTENDS Integers, Sequences, FiniteSets, TLC

\* ------------------------------------------------------------------ bounds

\* Gallery ids 1..MaxGalleries exist in a run (persisted ones first, then
\* the ones created in the session); gallery g is backed by folder g.
MaxGalleries == 2
\* Files 1..InitFiles are in every odd-numbered folder at start; the other
\* folders hold file 1 alone.
InitFiles == 3
\* Files written by imports, over all folders, in one run.
MaxImports == 1
\* The largest order a record holds at start.
MaxOrder == 3

GalleryIds == 1..MaxGalleries
MaxFiles == InitFiles + MaxImports
\* Object URLs that exist at one time (created and not revoked) in one run.
MaxUrls == 8
FileIds == 1..MaxFiles
\* The files folder g holds at start.
FolderAtStart(g) == IF g % 2 = 1 THEN 1..InitFiles ELSE {1}

\* ------------------------------------------------------- JavaScript values

\* parseInt(undefined) and arithmetic on undefined: not a number.
NaN == -7
\* A field the constructor never assigns, an array read out of range.
Undefined == -8

IsNum(x) == x # NaN /\ x # Undefined

\* a < b, a <= b, a >= b, a > b: false as soon as one side is NaN or undefined.
JsLt(a, b) == IsNum(a) /\ IsNum(b) /\ a < b
JsLe(a, b) == IsNum(a) /\ IsNum(b) /\ a <= b
JsGe(a, b) == IsNum(a) /\ IsNum(b) /\ a >= b
JsGt(a, b) == IsNum(a) /\ IsNum(b) /\ a > b
\* a === b: NaN equals nothing, undefined equals undefined.
StrictEq(a, b) == a # NaN /\ b # NaN /\ a = b
\* a + d for a number d.
JsAdd(a, d) == IF IsNum(a) THEN a + d ELSE NaN
\* !x for a field that is true, false or undefined.
JsNot(b) == IF b = "true" THEN "false" ELSE "true"

Min(a, b) == IF a < b THEN a ELSE b
Max(a, b) == IF a > b THEN a ELSE b

\* array[i] with a zero-based index: undefined out of range.
At(s, i) == IF IsNum(i) /\ i >= 0 /\ i < Len(s) THEN s[i + 1] ELSE Undefined

\* The actual start of Array.prototype.splice(start, ...): undefined and NaN
\* count as 0, a negative start counts from the end, all clamped to 0..length.
SpliceStart(s, start) ==
    IF ~IsNum(start) THEN 0
    ELSE IF start < 0 THEN Max(Len(s) + start, 0)
    ELSE Min(start, Len(s))

\* array.splice(start, 1)
SpliceRemove(s, start) ==
    LET k == SpliceStart(s, start)
    IN  IF k < Len(s) THEN SubSeq(s, 1, k) \o SubSeq(s, k + 2, Len(s)) ELSE s

\* array.splice(start, 0, x)
SpliceInsert(s, start, x) ==
    LET k == SpliceStart(s, start)
    IN  SubSeq(s, 1, k) \o <<x>> \o SubSeq(s, k + 1, Len(s))

\* ------------------------------------------------------------------- media

\* file.lastModified of file f of a folder: files 2 and 3 share a timestamp.
Mtime(f) == (f \div 2) + 1

\* One media descriptor pushed by Gallery.loadMedia.
Descriptor(f) == [path |-> f, lastModified |-> Mtime(f)]

\* x inserted into the descending-sorted s behind every element that does not
\* compare after it: Array.prototype.sort is stable.
RECURSIVE InsertDesc(_, _)
InsertDesc(s, x) ==
    IF s = <<>> THEN <<x>>
    ELSE IF Head(s).lastModified >= x.lastModified
         THEN <<Head(s)>> \o InsertDesc(Tail(s), x)
         ELSE <<x>> \o s

\* loadMedia without the sort: the list in the order of the enumeration.
SortByLastModified_Unsorted(s) == s

\* media.sort((a, b) => b.lastModified - a.lastModified)
RECURSIVE SortByLastModified(_)
SortByLastModified(s) ==
    IF s = <<>> THEN <<>>
    ELSE InsertDesc(SortByLastModified(SubSeq(s, 1, Len(s) - 1)), s[Len(s)])

Swap(s, i, j) == [s EXCEPT ![i + 1] = s[j + 1], ![j + 1] = s[i + 1]]

\* The Fisher-Yates loop from index i down to 1, j drawn from 0..i: the set
\* of lists it can leave.
RECURSIVE FisherYates(_, _)
FisherYates(s, i) ==
    IF i <= 0 THEN {s}
    ELSE UNION { FisherYates(Swap(s, i, j), i - 1) : j \in 0..i }

\* A shuffle that leaves the list as it is.
Shuffle_None(s) == {s}

Shuffle(s) == FisherYates(s, Len(s) - 1)

\* -------------------------------------------------------------- file names

\* A name is the sequence of its characters.  String.prototype.toLowerCase on
\* one character: the capitals A to Z are lowered, every other character of
\* the names is kept.
LowerChar(c) ==
    CASE c = "A" -> "a" [] c = "B" -> "b" [] c = "C" -> "c" [] c = "D" -> "d"
      [] c = "E" -> "e" [] c = "F" -> "f" [] c = "G" -> "g" [] c = "H" -> "h"
      [] c = "I" -> "i" [] c = "J" -> "j" [] c = "K" -> "k" [] c = "L" -> "l"
      [] c = "M" -> "m" [] c = "N" -> "n" [] c = "O" -> "o" [] c = "P" -> "p"
      [] c = "Q" -> "q" [] c = "R" -> "r" [] c = "S" -> "s" [] c = "T" -> "t"
      [] c = "U" -> "u" [] c = "V" -> "v" [] c = "W" -> "w" [] c = "X" -> "x"
      [] c = "Y" -> "y" [] c = "Z" -> "z"
      [] OTHER -> c

toLowerCase(n) == [i \in 1..Len(n) |-> LowerChar(n[i])]

\* name.split('.').pop(): the characters after the last '.', the whole name
\* when it has none.
RECURSIVE LastPart(_)
LastPart(n) ==
    IF n = <<>> THEN <<>>
    ELSE IF n[Len(n)] = "." THEN <<>>
    ELSE LastPart(SubSeq(n, 1, Len(n) - 1)) \o <<n[Len(n)]>>

\* supportedFormats of scanDirectoryRecursive
ImageFormats ==
    { <<".", "j", "p", "g">>, <<".", "j", "p", "e", "g">>, <<".", "p", "n", "g">>,
      <<".", "g", "i", "f">>, <<".", "w", "e", "b", "p">>, <<".", "b", "m", "p">> }

VideoFormats ==
    { <<".", "m", "p", "4">>, <<".", "w", "e", "b", "m">>, <<".", "o", "g", "g">> }

\* The type scanDirectoryRecursive gives a file entry, "none" when it skips it.
TypeOf(n) ==
    LET extension == <<".">> \o toLowerCase(LastPart(n))
    IN  IF extension \in ImageFormats THEN "image"
        ELSE IF extension \in VideoFormats THEN "video"
        ELSE "none"

\* const entryPath = path ? `${path}/${entry.name}` : entry.name
EntryPath(path, n) == IF path = <<>> THEN n ELSE path \o <<"/">> \o n

\* Gallery.scanDirectoryRecursive over the entries of a directory, depth
\* first: a file entry is [kind, name], a directory entry [kind, name, entries].
\* stops holds the paths of the entries at which the iterator of
\* dirHandle.values() rejects instead of returning the entry: the catch
\* block logs the error and the call returns the files it has so far, so
\* that entry and the entries after it in the same directory are not seen.
\* The call for a sub-directory has its own catch: the loop of the parent
\* goes on behind it.
RECURSIVE scanDirectoryRecursive(_, _, _)
scanDirectoryRecursive(entries, path, stops) ==
    IF entries = <<>> THEN <<>>
    ELSE LET entry == Head(entries)
             entryPath == EntryPath(path, entry.name)
             found == IF entry.kind = "file"
                      THEN IF TypeOf(entry.name) # "none"
                           THEN <<[path |-> entryPath, type |-> TypeOf(entry.name)]>>
                           ELSE <<>>
                      ELSE scanDirectoryRecursive(entry.entries, entryPath, stops)
         IN  IF entryPath \in stops THEN <<>>
             ELSE found \o scanDirectoryRecursive(Tail(entries), path, stops)

\* The settlements of next() in the scan of a tree, in the order in which
\* the scan awaits them: the path of the entry that is returned, or at which
\* the iterator rejects, and <<>> where an iterator reports its end.  The
\* scan of a sub-directory runs inside the turn of the loop for its entry.
RECURSIVE Settlements(_, _, _)
Settlements(entries, path, stops) ==
    IF entries = <<>> THEN << <<>> >>
    ELSE LET entry == Head(entries)
             entryPath == EntryPath(path, entry.name)
         IN  IF entryPath \in stops THEN <<entryPath>>
             ELSE <<entryPath>>
                  \o (IF entry.kind = "directory"
                      THEN Settlements(entry.entries, entryPath, stops)
                      ELSE <<>>)
                  \o Settlements(Tail(entries), path, stops)

\* The rejections of a scan after its next settlement, when it has seen
\* step settlements with the rejections stops: next() returns the entry (or
\* the end), or, where enumerations fail, rejects in place of the entry.  A
\* rejection in place of the end returns the files the end returns.
StopsNext(tree, step, stops, faults) ==
    LET next == Settlements(tree, <<>>, stops)[step + 1]
    IN  {stops} \cup (IF faults /\ next # <<>> THEN {stops \cup {next}} ELSE {})

\* The entries of a folder tree, each with the path of its directory, its
\* position in the enumeration of that directory and its own path.
RECURSIVE Nodes(_, _)
Nodes(entries, path) ==
    UNION { {[dir |-> path, pos |-> i, path |-> EntryPath(path, entries[i].name)]}
                \cup (IF entries[i].kind = "directory"
                      THEN Nodes(entries[i].entries, EntryPath(path, entries[i].name))
                      ELSE {}) : i \in 1..Len(entries) }

\* The sets of entries at which the enumeration of a tree can reject: none
\* in a run without read failures.
StopSets(tree, faults) ==
    IF faults THEN SUBSET { n.path : n \in Nodes(tree, <<>>) } ELSE {{}}

\* The last parts of the file names the scans are run on: the nine supported
\* extensions, some of them in capitals, and parts that are not supported.
LastParts ==
    { <<"j", "p", "g">>, <<"j", "p", "e", "g">>, <<"p", "n", "g">>,
      <<"g", "i", "f">>, <<"w", "e", "b", "p">>, <<"b", "m", "p">>,
      <<"m", "p", "4">>, <<"w", "e", "b", "m">>, <<"o", "g", "g">>,
      <<"J", "P", "G">>, <<"P", "n", "g">>, <<"W", "E", "B", "M">>,
      <<"O", "g", "G">>, <<"G", "I", "F">>, <<"t", "x", "t">>, <<"j", "p">>,
      <<"j", "p", "g", "x">>, <<"m", "p", "3">>, <<>> }

\* What comes before the last part: nothing, or a stem that ends with '.'.
Stems ==
    { <<>>, <<".">>, <<"a", ".">>, <<"a", ".", "b", ".">>,
      <<"a", ".", "j", "p", "g", ".">>, <<"j", "p", "g", "a", ".">> }

Names == { stem \o part : stem \in Stems, part \in LastParts } \ {<<>>}

\* The folder a scan is run on: a file of the given name at the root, in a
\* sub-directory and in a sub-directory of it, next to a file that is always
\* skipped; the inner directory has the name of an image.
TreeOf(n) ==
    LET file == [kind |-> "file", name |-> n]
        skipped == [kind |-> "file", name |-> <<"r", "e", "a", "d", "m", "e">>]
        inner == [kind |-> "directory", name |-> <<"e", ".", "j", "p", "g">>,
                  entries |-> <<file>>]
        outer == [kind |-> "directory", name |-> <<"d">>,
                  entries |-> <<skipped, inner, file>>]
    IN  <<file, outer, skipped>>

\* ------------------------------------------------------------------- state

\* ------------------------------------------------------- imported names

\* The characters of s before the first c (all of s when it has none), and
\* the characters after it.
RECURSIVE Before(_, _)
Before(s, c) ==
    IF s = <<>> \/ Head(s) = c THEN <<>> ELSE <<Head(s)>> \o Before(Tail(s), c)

After(s, c) == SubSeq(s, Len(Before(s, c)) + 2, Len(s))

Has(s, c) == \E i \in 1..Len(s) : s[i] = c

\* type.startsWith(p)
startsWith(s, p) == Len(s) >= Len(p) /\ SubSeq(s, 1, Len(p)) = p

\* getExtensionFromFileName that keeps the case of the name.
getExtensionFromFileName_KeepCase(name) ==
    IF name = <<>> \/ ~Has(name, ".") THEN <<>> ELSE LastPart(name)

\* App.getExtensionFromFileName; null is the empty text here (both are falsy
\* in the || chain that reads the result).
getExtensionFromFileName(name) ==
    IF name = <<>> \/ ~Has(name, ".") THEN <<>> ELSE toLowerCase(LastPart(name))

\* The object literal of getExtensionFromMime: its own properties.
MapEntries ==
    { <<<<"j", "p", "e", "g">>, <<"j", "p", "g">>>>,
      <<<<"p", "n", "g">>, <<"p", "n", "g">>>>,
      <<<<"w", "e", "b", "p">>, <<"w", "e", "b", "p">>>>,
      <<<<"g", "i", "f">>, <<"g", "i", "f">>>>,
      <<<<"m", "p", "4">>, <<"m", "p", "4">>>>,
      <<<<"w", "e", "b", "m">>, <<"w", "e", "b", "m">>>>,
      <<<<"x", "-", "m", "a", "t", "r", "o", "s", "k", "a">>, <<"m", "k", "v">>>>,
      <<<<"q", "u", "i", "c", "k", "t", "i", "m", "e">>, <<"m", "o", "v">>>> }

\* The extension the literal gives for a subtype, empty when it has no
\* property of that name.
OwnEntry(subtype) ==
    IF \E e \in MapEntries : e[1] = subtype
    THEN (CHOOSE e \in MapEntries : e[1] = subtype)[2]
    ELSE <<>>

\* The text of a built-in function, as the template literal of
\* saveFileToActiveGallery makes it (the browsers that have
\* showDirectoryPicker print it on one line).
NativeFunction(name) ==
    <<"f", "u", "n", "c", "t", "i", "o", "n", " ">> \o name
        \o <<"(", ")", " ", "{", " ", "[", "n", "a", "t", "i", "v", "e", " ",
            "c", "o", "d", "e", "]", " ", "}">>

\* The properties the literal inherits from Object.prototype: map[subtype]
\* finds them as it finds the own ones. All but __proto__ are functions,
\* constructor is the function Object; __proto__ is Object.prototype itself.
\* The value is given as the text it has in the file name; empty when
\* Object.prototype has no property of that name.
InheritedEntry(subtype) ==
    CASE subtype = <<"c", "o", "n", "s", "t", "r", "u", "c", "t", "o", "r">> ->
             NativeFunction(<<"O", "b", "j", "e", "c", "t">>)
      [] subtype = <<"_", "_", "p", "r", "o", "t", "o", "_", "_">> ->
             <<"[", "o", "b", "j", "e", "c", "t", " ", "O", "b", "j", "e", "c", "t", "]">>
      [] subtype \in
             { <<"t", "o", "S", "t", "r", "i", "n", "g">>,
               <<"v", "a", "l", "u", "e", "O", "f">>,
               <<"t", "o", "L", "o", "c", "a", "l", "e", "S", "t", "r", "i", "n", "g">>,
               <<"h", "a", "s", "O", "w", "n", "P", "r", "o", "p", "e", "r", "t", "y">>,
               <<"i", "s", "P", "r", "o", "t", "o", "t", "y", "p", "e", "O", "f">>,
               <<"p", "r", "o", "p", "e", "r", "t", "y", "I", "s", "E", "n", "u", "m", "e", "r", "a", "b", "l", "e">>,
               <<"_", "_", "d", "e", "f", "i", "n", "e", "G", "e", "t", "t", "e", "r", "_", "_">>,
               <<"_", "_", "d", "e", "f", "i", "n", "e", "S", "e", "t", "t", "e", "r", "_", "_">>,
               <<"_", "_", "l", "o", "o", "k", "u", "p", "G", "e", "t", "t", "e", "r", "_", "_">>,
               <<"_", "_", "l", "o", "o", "k", "u", "p", "S", "e", "t", "t", "e", "r", "_", "_">> } ->
             NativeFunction(subtype)
      [] OTHER -> <<>>

\* map[subtype] || subtype: the own property, else the inherited one, else
\* the subtype itself.
MimeMap(subtype) ==
    IF OwnEntry(subtype) # <<>> THEN OwnEntry(subtype)
    ELSE IF InheritedEntry(subtype) # <<>> THEN InheritedEntry(subtype)
    ELSE subtype

\* mime.split('/')[1].split('+')[0]
SubtypeOf(mime) == Before(Before(After(mime, "/"), "/"), "+")

\* App.getExtensionFromMime; null is the empty text.
getExtensionFromMime(mime) ==
    IF mime = <<>> \/ ~Has(mime, "/") THEN <<>> ELSE MimeMap(SubtypeOf(mime))

\* toISOString().replace(/[:.]/g, '-')
ReplaceColonsAndDots(t) ==
    [i \in 1..Len(t) |-> IF t[i] = ":" \/ t[i] = "." THEN "-" ELSE t[i]]

\* The file name saveFileToActiveGallery writes to, for a file of the given
\* name and type at the given time (as toISOString gives it).
FileNameFor(name, type, time) ==
    LET fromName == getExtensionFromFileName(name)
        fromMime == getExtensionFromMime(type)
        ext == IF fromName # <<>> THEN fromName
               ELSE IF fromMime # <<>> THEN fromMime
               ELSE <<"b", "i", "n">>
        prefix == IF startsWith(type, <<"i", "m", "a", "g", "e", "/">>) THEN <<"i", "m", "a", "g", "e">>
                  ELSE IF startsWith(type, <<"v", "i", "d", "e", "o", "/">>) THEN <<"v", "i", "d", "e", "o">>
                  ELSE <<"f", "i", "l", "e">>
    IN  prefix \o ReplaceColonsAndDots(time) \o <<".">> \o ext

\* The names, the MIME types and the times of the files that are imported.
ImportNames ==
    { <<>>, <<"c", "l", "i", "p">>, <<"a", ".", "P", "N", "G">>,
      <<"b", ".", "a", ".", "J", "P", "G">>, <<"c", "l", "i", "p", ".">>,
      <<".", "g", "i", "f">>, <<"a", ".", "b", ".">>,
      <<"w", "e", "b", "m">>, <<"x", ".", "G", "I", "F">> }

ImportTypes ==
    { <<>>, <<"i", "m", "a", "g", "e", "/", "p", "n", "g">>,
      <<"i", "m", "a", "g", "e", "/", "j", "p", "e", "g">>,
      <<"v", "i", "d", "e", "o", "/", "w", "e", "b", "m">>,
      <<"v", "i", "d", "e", "o", "/", "q", "u", "i", "c", "k", "t", "i", "m", "e">>,
      <<"v", "i", "d", "e", "o", "/", "x", "-", "m", "a", "t", "r", "o", "s", "k", "a">>,
      <<"i", "m", "a", "g", "e", "/", "s", "v", "g", "+", "x", "m", "l">>,
      <<"t", "e", "x", "t", "/", "p", "l", "a", "i", "n">>,
      <<"i", "m", "a", "g", "e", "/">>, <<"v", "i", "d", "e", "o">>,
      <<"i", "m", "a", "g", "e", "x", "/", "p", "n", "g">>,
      <<"v", "i", "d", "e", "o", "/", "m", "p", "4", "/", "x">>,
      <<"i", "m", "a", "g", "e", "/", "c", "o", "n", "s", "t", "r", "u", "c", "t", "o", "r">>,
      <<"v", "i", "d", "e", "o", "/", "_", "_", "p", "r", "o", "t", "o", "_", "_", "+", "x">> }

ImportTimes ==
    { <<"1", "-", "2", "T", "3", ":", "4", ":", "5", ".", "6", "Z">>,
      <<"7", "-", "8", "T", "9", ":", "0", ":", "1", ".", "2", "Z">> }

VARIABLES
    db,                  \* GalleryDB.db: "null" until init resolves, then "open";
                         \* "closed" once the browser closed the connection
    store,               \* the object store 'galleries', keyed by id
    disk,                \* per folder, the files in it
    foreign,             \* the files on disk whose name has no supported extension
    gal,                 \* the Gallery objects constructed in this session, by id
    galleries,           \* GalleryManager.galleries: ids (or undefined entries)
    activeGalleryIndex,  \* GalleryManager.activeGalleryIndex
    activeMediaIndex,    \* GalleryManager.activeMediaIndex
    isRandomMode,        \* GalleryManager.isRandomMode: "true", "false", "undefined"
    previousMediaIndex,  \* GalleryManager.previousMediaIndex
    draggedTabIndex,     \* GalleryManager.draggedTabIndex
    tabs,                \* the data-index values of the .tab elements
    thumbnails,          \* the number of .thumbnail elements in the grid
    randomButton,        \* #randomButton is displayed
    loading,             \* #loadingIndicator is displayed
    urls,                \* object URLs created by createObjectURL and not revoked
    revoked,             \* per gallery, the descriptors in its list whose URL is revoked
    nextId,              \* the id Date.now() gives the next created gallery
    written,             \* files written by imports so far
    load,                \* App.init / GalleryManager.loadFromStorage in flight
    create,              \* per gallery id, the GalleryManager.createGallery in flight
    import,              \* App.handleDrop and App.handlePaste in flight
    readFaults,          \* the run admits rejections of getFile and of the
                         \* iterator of a directory (fixed at start)
    walk,                \* a scan of a folder of named entries: the name, the files found
    naming,              \* the naming of an imported file: its name, type, time, the result
    last                 \* the handler segment that ran last, with the state it found

jsVars == <<galleries, activeGalleryIndex, activeMediaIndex, isRandomMode,
            previousMediaIndex, draggedTabIndex, tabs, thumbnails, randomButton,
            loading, gal, store, urls, revoked>>
envVars == <<db, disk, foreign, nextId, written, readFaults, walk, naming>>
taskVars == <<load, create, import>>
vars == <<jsVars, envVars, taskVars, last>>

\* A Gallery object: constructor (order is assigned by the manager).
NewGallery == [made |-> TRUE, order |-> Undefined, isShuffled |-> "false", media |-> <<>>]
NoGallery == [made |-> FALSE, order |-> Undefined, isShuffled |-> "false", media |-> <<>>]
NoRecord == [present |-> FALSE, order |-> Undefined, isShuffled |-> "undefined"]

\* The state a handler segment reads and writes, as one value; threw is set
\* when the segment ended in an exception.
World ==
    [galleries |-> galleries, activeGalleryIndex |-> activeGalleryIndex,
     activeMediaIndex |-> activeMediaIndex, isRandomMode |-> isRandomMode,
     previousMediaIndex |-> previousMediaIndex, draggedTabIndex |-> draggedTabIndex,
     tabs |-> tabs, thumbnails |-> thumbnails, randomButton |-> randomButton,
     loading |-> loading, gal |-> gal, store |-> store, urls |-> urls,
     revoked |-> revoked, threw |-> FALSE]

Commit(w) ==
    /\ galleries' = w.galleries
    /\ activeGalleryIndex' = w.activeGalleryIndex
    /\ activeMediaIndex' = w.activeMediaIndex
    /\ isRandomMode' = w.isRandomMode
    /\ previousMediaIndex' = w.previousMediaIndex
    /\ draggedTabIndex' = w.draggedTabIndex
    /\ tabs' = w.tabs
    /\ thumbnails' = w.thumbnails
    /\ randomButton' = w.randomButton
    /\ loading' = w.loading
    /\ gal' = w.gal
    /\ store' = w.store
    /\ urls' = w.urls
    /\ revoked' = w.revoked

Throw(w) == [w EXCEPT !.threw = TRUE]

\* this.galleries[this.activeGalleryIndex]
ActiveGallery(w) == At(w.galleries, w.activeGalleryIndex)
MediaOf(w, g) == w.gal[g].media

\* The zero-based position of the first undefined entry, the length if none.
FirstUndefined(s) ==
    IF \E i \in 1..Len(s) : s[i] = Undefined
    THEN (CHOOSE i \in 1..Len(s) :
              s[i] = Undefined /\ \A j \in 1..(i - 1) : s[j] # Undefined) - 1
    ELSE Len(s)

\* -------------------------------------------------------- GalleryManager

\* GalleryDB.saveGallery: a full upsert of the record; db.transaction throws
\* while the connection is null and after it was closed.
saveGallery(w, g) ==
    IF db # "open" THEN Throw(w)
    ELSE [w EXCEPT !.store[g] = [present |-> TRUE, order |-> w.gal[g].order,
                                 isShuffled |-> w.gal[g].isShuffled]]

\* deleteGallery that leaves the record in the store.
deleteGallery_Keep(w, g) ==
    IF db # "open" THEN Throw(w) ELSE w

\* GalleryDB.deleteGallery
deleteGallery(w, g) ==
    IF db # "open" THEN Throw(w) ELSE [w EXCEPT !.store[g] = NoRecord]

\* GalleryManager.displayMedia: out of range is ignored; an index that is
\* not a number passes both range tests, is stored, and reading the media it
\* names throws.
displayMedia(w, index) ==
    LET g == ActiveGallery(w)
    IN  IF g = Undefined \/ JsLt(index, 0) \/ JsGe(index, Len(MediaOf(w, g))) THEN w
        ELSE IF ~IsNum(index) THEN Throw([w EXCEPT !.activeMediaIndex = index])
        ELSE [w EXCEPT !.activeMediaIndex = index]

\* GalleryManager.displayThumbnails
displayThumbnails(w, g) == [w EXCEPT !.thumbnails = Len(MediaOf(w, g))]

\* selectGallery without the return to Sequential mode.
selectGallery_KeepRandom(w, index) ==
    IF JsLt(index, 0) \/ JsGe(index, Len(w.galleries)) THEN w
    ELSE IF index \notin w.tabs THEN Throw(w)
    ELSE LET w1 == [w EXCEPT !.activeGalleryIndex = index,
                             !.activeMediaIndex = 0,
                             !.previousMediaIndex = -1]
             g == At(w.galleries, index)
         IN  IF g = Undefined THEN Throw(w1)
             ELSE IF Len(MediaOf(w1, g)) > 0
                  THEN displayMedia(
                           displayThumbnails([w1 EXCEPT !.randomButton = TRUE], g), 0)
                  ELSE [w1 EXCEPT !.randomButton = FALSE]

\* GalleryManager.selectGallery
selectGallery(w, index) ==
    IF JsLt(index, 0) \/ JsGe(index, Len(w.galleries)) THEN w
    ELSE IF index \notin w.tabs THEN Throw(w)
    ELSE LET w1 == [w EXCEPT !.activeGalleryIndex = index,
                             !.activeMediaIndex = 0,
                             !.isRandomMode = "false",
                             !.previousMediaIndex = -1]
             g == At(w.galleries, index)
         IN  IF g = Undefined THEN Throw(w1)
             ELSE IF Len(MediaOf(w1, g)) > 0
                  THEN displayMedia(
                           displayThumbnails([w1 EXCEPT !.randomButton = TRUE], g), 0)
                  ELSE [w1 EXCEPT !.randomButton = FALSE]

\* GalleryManager.addGalleryTab
addGalleryTab(w, index) == [w EXCEPT !.tabs = @ \cup {index}]

\* GalleryManager.rebuildTabs: every tab is removed, then one is added per
\* gallery; reading the name of an undefined entry throws and ends the loop.
rebuildTabs(w) ==
    LET k == FirstUndefined(w.galleries)
        w1 == [w EXCEPT !.tabs = 0..(k - 1)]
    IN  IF k < Len(w.galleries) THEN Throw(w1) ELSE w1

\* Reselect without the shift of the active index when a gallery before it
\* is removed.
Reselect_NoShift(w, index) ==
    IF Len(w.galleries) > 0
    THEN LET a == w.activeGalleryIndex
             w1 == IF StrictEq(index, a)
                   THEN [w EXCEPT !.activeGalleryIndex =
                                      Min(index, Len(w.galleries) - 1)]
                   ELSE w
             w2 == rebuildTabs(w1)
         IN  IF w2.threw THEN w2 ELSE selectGallery(w2, w2.activeGalleryIndex)
    ELSE [w EXCEPT !.activeGalleryIndex = -1, !.tabs = {}, !.randomButton = FALSE,
                   !.thumbnails = 0]

\* Reselect without the selection of the active gallery after the tabs are
\* rebuilt.
Reselect_NoSelect(w, index) ==
    IF Len(w.galleries) > 0
    THEN LET a == w.activeGalleryIndex
             w1 == IF JsLt(index, a) THEN [w EXCEPT !.activeGalleryIndex = JsAdd(a, -1)]
                   ELSE IF StrictEq(index, a)
                        THEN [w EXCEPT !.activeGalleryIndex =
                                           Min(index, Len(w.galleries) - 1)]
                        ELSE w
         IN  rebuildTabs(w1)
    ELSE [w EXCEPT !.activeGalleryIndex = -1, !.tabs = {}, !.randomButton = FALSE,
                   !.thumbnails = 0]

\* The reselection of closeGallery once the gallery is spliced out.
Reselect(w, index) ==
    IF Len(w.galleries) > 0
    THEN LET a == w.activeGalleryIndex
             w1 == IF JsLt(index, a) THEN [w EXCEPT !.activeGalleryIndex = JsAdd(a, -1)]
                   ELSE IF StrictEq(index, a)
                        THEN [w EXCEPT !.activeGalleryIndex =
                                           Min(index, Len(w.galleries) - 1)]
                        ELSE w
             w2 == rebuildTabs(w1)
         IN  IF w2.threw THEN w2 ELSE selectGallery(w2, w2.activeGalleryIndex)
    ELSE [w EXCEPT !.activeGalleryIndex = -1, !.tabs = {}, !.randomButton = FALSE,
                   !.thumbnails = 0]

\* A close that releases no URL.
revokeMedia_None(w, g) == w

\* gallery.media.forEach(media => URL.revokeObjectURL(media.url)): revoking
\* a URL that is revoked already does nothing.
revokeMedia(w, g) ==
    [w EXCEPT !.urls = @ - (Len(MediaOf(w, g)) - w.revoked[g]),
              !.revoked[g] = Len(MediaOf(w, g))]

\* GalleryManager.closeGallery
closeGallery(w, index) ==
    LET g == At(w.galleries, index)
    IN  IF g = Undefined THEN Throw(w)
        ELSE LET w1 == deleteGallery(revokeMedia(w, g), g)
             IN  IF w1.threw THEN w1
                 ELSE Reselect([w1 EXCEPT !.galleries = SpliceRemove(@, index)],
                               index)

\* handleTabDrop without the adjustment of activeGalleryIndex.
DropActive_Keep(a, dragged, target) == a

\* The adjustment of activeGalleryIndex in handleTabDrop.
DropActive(a, dragged, target) ==
    IF StrictEq(a, dragged) THEN target
    ELSE IF JsLt(dragged, a) /\ JsGe(target, a) THEN JsAdd(a, -1)
    ELSE IF JsGt(dragged, a) /\ JsLe(target, a) THEN JsAdd(a, 1)
    ELSE a

\* handleTabDrop without the renumbering of the order fields.
Renumber_Keep(objs, s) == objs

\* galleries.forEach((g, idx) => g.order = idx), up to the first undefined entry.
Renumber(objs, s) ==
    [g \in GalleryIds |->
        IF \E i \in 1..FirstUndefined(s) : s[i] = g
        THEN [objs[g] EXCEPT !.order =
                  (CHOOSE i \in 1..FirstUndefined(s) : s[i] = g) - 1]
        ELSE objs[g]]

\* A save loop that writes the record of every gallery made in the session,
\* the closed ones included.
SaveAll_Stale(w, s) ==
    IF db # "open" THEN w
    ELSE [w EXCEPT !.store =
             [g \in GalleryIds |->
                 IF w.gal[g].made
                 THEN [present |-> TRUE, order |-> w.gal[g].order,
                       isShuffled |-> w.gal[g].isShuffled]
                 ELSE w.store[g]]]

\* for (const g of this.galleries) await this.db.saveGallery(g), inside try/catch
RECURSIVE SaveAll(_, _)
SaveAll(w, s) ==
    IF s = <<>> THEN w
    ELSE LET w1 == saveGallery(w, Head(s))
         IN  IF w1.threw THEN w ELSE SaveAll(w1, Tail(s))

\* GalleryManager.handleTabDrop, target the data-index of the element the
\* drop event names (NaN when that element is a child of the tab).  The
\* dragged element is the drop target only when their indices agree, so the
\* test on the elements adds nothing to the test on the indices.
handleTabDrop(w, target) ==
    LET dragged == w.draggedTabIndex
    IN  IF StrictEq(dragged, target) THEN w
        ELSE LET moved == At(w.galleries, dragged)
                 s == SpliceInsert(SpliceRemove(w.galleries, dragged), target, moved)
                 w1 == [w EXCEPT !.galleries = s,
                                 !.activeGalleryIndex =
                                     DropActive(w.activeGalleryIndex, dragged, target),
                                 !.gal = Renumber(w.gal, s)]
             IN  IF FirstUndefined(s) < Len(s) THEN Throw(w1)
                 ELSE rebuildTabs(SaveAll(w1, s))

\* ------------------------------------------------------------------- App

\* selectRandomMedia with the draw replaced by the next index.
selectRandomMedia_Next(w) ==
    LET g == ActiveGallery(w)
    IN  IF g = Undefined \/ Len(MediaOf(w, g)) <= 1 THEN {w}
        ELSE LET w1 == [w EXCEPT !.isRandomMode = "true",
                                 !.previousMediaIndex = w.activeMediaIndex]
                 r == IF JsGe(JsAdd(w.activeMediaIndex, 1), Len(MediaOf(w, g)))
                      THEN 0 ELSE JsAdd(w.activeMediaIndex, 1)
             IN  {displayMedia(w1, IF IsNum(r) THEN r ELSE 0)}

\* selectRandomMedia without the record of the index it leaves.
selectRandomMedia_NoRecord(w) ==
    LET g == ActiveGallery(w)
    IN  IF g = Undefined \/ Len(MediaOf(w, g)) <= 1 THEN {w}
        ELSE LET w1 == [w EXCEPT !.isRandomMode = "true"]
             IN  { displayMedia(w1, r) :
                     r \in { i \in 0..(Len(MediaOf(w, g)) - 1) :
                               ~StrictEq(i, w.activeMediaIndex) } }

\* App.selectRandomMedia: the set of states the draw can leave.
selectRandomMedia(w) ==
    LET g == ActiveGallery(w)
    IN  IF g = Undefined \/ Len(MediaOf(w, g)) <= 1 THEN {w}
        ELSE LET w1 == [w EXCEPT !.isRandomMode = "true",
                                 !.previousMediaIndex = w.activeMediaIndex]
             IN  { displayMedia(w1, r) :
                     r \in { i \in 0..(Len(MediaOf(w, g)) - 1) :
                               ~StrictEq(i, w.activeMediaIndex) } }

\* StepIndex that stops at the ends of the list.
StepIndex_NoWrap(index, direction, count) ==
    LET n == JsAdd(index, direction)
        n1 == IF JsLt(n, 0) THEN 0 ELSE n
    IN  IF JsGe(n1, count) THEN count - 1 ELSE n1

\* The Sequential branch of navigateMedia: one step with wraparound.
StepIndex(index, direction, count) ==
    LET n == JsAdd(index, direction)
        n1 == IF JsLt(n, 0) THEN count - 1 ELSE n
    IN  IF JsGe(n1, count) THEN 0 ELSE n1

\* navigateMedia whose step back keeps previousMediaIndex.
navigateMedia_KeepPrevious(w, direction) ==
    LET g == ActiveGallery(w)
    IN  IF g = Undefined \/ Len(MediaOf(w, g)) = 0 THEN {w}
        ELSE IF w.isRandomMode = "true"
        THEN IF direction = -1
                /\ ~StrictEq(w.previousMediaIndex, -1)
                /\ ~StrictEq(w.previousMediaIndex, w.activeMediaIndex)
             THEN {displayMedia(w, w.previousMediaIndex)}
             ELSE selectRandomMedia(w)
        ELSE {displayMedia(w, StepIndex(w.activeMediaIndex, direction,
                                        Len(MediaOf(w, g))))}

\* App.navigateMedia
navigateMedia(w, direction) ==
    LET g == ActiveGallery(w)
    IN  IF g = Undefined \/ Len(MediaOf(w, g)) = 0 THEN {w}
        ELSE IF w.isRandomMode = "true"
        THEN IF direction = -1
                /\ ~StrictEq(w.previousMediaIndex, -1)
                /\ ~StrictEq(w.previousMediaIndex, w.activeMediaIndex)
             THEN {displayMedia([w EXCEPT !.previousMediaIndex = -1],
                                w.previousMediaIndex)}
             ELSE selectRandomMedia(w)
        ELSE {displayMedia(w, StepIndex(w.activeMediaIndex, direction,
                                        Len(MediaOf(w, g))))}

\* App.toggleRandomMedia
toggleRandomMedia(w) ==
    LET w1 == [w EXCEPT !.isRandomMode = JsNot(@)]
    IN  IF w1.isRandomMode = "true" THEN selectRandomMedia(w1) ELSE {w1}

\* App.handleKeyboard for the keys that reach the manager.
handleKeyboard(w, key) ==
    IF StrictEq(w.activeGalleryIndex, -1) THEN {w}
    ELSE CASE key = "ArrowRight" -> navigateMedia(w, 1)
           [] key = "ArrowLeft" -> navigateMedia(w, -1)
           [] key = "r" -> selectRandomMedia(w)

\* thumbnail.onclick of the thumbnail rendered at position index.
thumbnailClick(w, index) == displayMedia([w EXCEPT !.isRandomMode = "false"], index)

\* shuffleGallery that reorders the list and leaves the flag as it is.
shuffleGallery_KeepFlag(w) ==
    LET g == ActiveGallery(w)
    IN  IF g = Undefined \/ Len(MediaOf(w, g)) = 0 THEN {w}
        ELSE LET flag == JsNot(w.gal[g].isShuffled)
                 lists == IF flag = "true" THEN Shuffle(MediaOf(w, g))
                          ELSE {SortByLastModified(MediaOf(w, g))}
             IN  { LET w1 == saveGallery([w EXCEPT !.gal[g].media = m], g)
                   IN  IF w1.threw THEN w1
                       ELSE displayMedia(displayThumbnails(w1, g), 0) : m \in lists }

\* App.shuffleGallery
shuffleGallery(w) ==
    LET g == ActiveGallery(w)
    IN  IF g = Undefined \/ Len(MediaOf(w, g)) = 0 THEN {w}
        ELSE LET flag == JsNot(w.gal[g].isShuffled)
                 lists == IF flag = "true" THEN Shuffle(MediaOf(w, g))
                          ELSE {SortByLastModified(MediaOf(w, g))}
             IN  { LET w1 == saveGallery([w EXCEPT !.gal[g].isShuffled = flag,
                                                   !.gal[g].media = m], g)
                   IN  IF w1.threw THEN w1
                       ELSE displayMedia(displayThumbnails(w1, g), 0) : m \in lists }

\* ----------------------------------------------------------------- Gallery

\* dirHandle.values() lists a directory in the order of its file ids (the
\* platform fixes an order; this is the one the model gives it).
RECURSIVE Listing(_)
Listing(S) ==
    IF S = {} THEN <<>>
    ELSE LET f == CHOOSE x \in S : \A y \in S : x <= y
         IN  <<f>> \o Listing(S \ {f})

\* The files that lie in the sub-directory d of their folder; the others,
\* and the files an import writes, lie at its root.
SubFiles == {2}

Digit(f) == <<"1", "2", "3", "4", "5", "6", "7", "8", "9">>[f]

\* The name of file f in the folder whose unsupported files are F: a name
\* that scanDirectoryRecursive takes as an image, or one that it skips.
NameOf(f, F) ==
    <<Digit(f)>> \o (IF f \in F THEN <<".", "b", "i", "n">> ELSE <<".", "j", "p", "g">>)

\* The path of file f from the root of its folder.
PathOf(f, F) == IF f \in SubFiles THEN <<"d", "/">> \o NameOf(f, F) ELSE NameOf(f, F)

\* The folder that holds the files S: the entries of its root in the order
\* of the enumeration, the sub-directory d where its first file would be.
FolderTree(S, F) ==
    LET fileEntry(f) == [kind |-> "file", name |-> NameOf(f, F)]
        inner == Listing(S \cap SubFiles)
        sub == [kind |-> "directory", name |-> <<"d">>,
                entries |-> [i \in 1..Len(inner) |-> fileEntry(inner[i])]]
        first == IF inner = <<>> THEN 0 ELSE inner[1]
        root == Listing((S \ SubFiles) \cup (IF first = 0 THEN {} ELSE {first}))
    IN  [i \in 1..Len(root) |-> IF root[i] = first THEN sub ELSE fileEntry(root[i])]

\* The entries scanDirectoryRecursive returns for the folder tree, as the
\* files of S they are handles of, when the enumeration rejects at the
\* entries of stops.
FilesFound(tree, S, F, stops) ==
    LET found == scanDirectoryRecursive(tree, <<>>, stops)
    IN  [i \in 1..Len(found) |-> CHOOSE f \in S : PathOf(f, F) = found[i].path]

\* The same of the folder that holds the files S.
ScanFolder(S, F, stops) == FilesFound(FolderTree(S, F), S, F, stops)

\* The end of Gallery.loadMedia: the sort, then the shuffle of a shuffled gallery.
FinishMedia(m, isShuffled) ==
    IF isShuffled = "true" THEN Shuffle(SortByLastModified(m))
    ELSE {SortByLastModified(m)}

\* A getFile that rejects ends the scan's loop: what was read is lost.
readEntry_Abort(m, f, ok) == IF ok THEN Append(m, Descriptor(f)) ELSE <<>>

\* One turn of the loop of loadMedia over the entries: getFile resolves and
\* the descriptor is pushed, or it rejects, the inner catch logs it and the
\* list stays as it is.
readEntry(m, f, ok) == IF ok THEN Append(m, Descriptor(f)) ELSE m

\* What queryPermission and requestPermission settle with: one of the three
\* permission states, or a rejection (requestPermission rejects when the call
\* is not made from a user gesture, both reject for a handle that no longer
\* resolves).
Answers == {"granted", "prompt", "denied", "throws"}

\* One settlement in verifyPermission, of queryPermission (asked is FALSE)
\* or of requestPermission (asked is TRUE): the function returns "true" or
\* "false", "throws" when the call rejects (there is no handler), or goes on
\* to requestPermission ("asks").
Settled(asked, answer) ==
    IF answer = "throws" THEN "throws"
    ELSE IF answer = "granted" THEN "true"
    ELSE IF asked THEN "false"
    ELSE "asks"

\* GalleryManager.verifyPermission and Gallery.verifyPermission from the
\* call to the return: "true", "false" or "throws".
verifyPermission(query, request) ==
    IF Settled(FALSE, query) = "asks" THEN Settled(TRUE, request)
    ELSE Settled(FALSE, query)

\* What a verification that has seen step settlements ends with, or goes on
\* with, at its next settlement.
Verdicts(step) == { Settled(step = 1, answer) : answer \in Answers }

\* A gate that lets every verdict through.
Permitted_Any(verdict) == TRUE

\* The test both callers make on the verdict of verifyPermission before they
\* touch the folder: if (!hasPermission) return / throw.  A verification that
\* throws ends the caller's try block the same way.
Permitted(verdict) == verdict = "true"

\* ------------------------------------------------------------ the segments

\* A task (the load, a createGallery, an import) holds where it waits (pc),
\* the verdict of its last verification (perm), the entries its scan still
\* has to read and those getFile rejected, and for the await it is at the
\* number of settlements it has seen there (step: of the two calls of a
\* verification, of the next() calls of an enumeration, of createWritable,
\* write and close) with the entries at which an enumeration rejected (stops).
Idle == [pc |-> "idle", g |-> Undefined, files |-> 0, entries |-> <<>>,
         perm |-> "none", failed |-> {}, step |-> 0, stops |-> {}]

\* What the segment found: the collection size, the four navigation fields,
\* the media count of the active gallery (-1 without one) and the number of
\* files written so far.
Pre ==
    [gs |-> galleries, n |-> Len(galleries), a |-> activeGalleryIndex, m |-> activeMediaIndex,
     r |-> isRandomMode, p |-> previousMediaIndex,
     c |-> IF At(galleries, activeGalleryIndex) = Undefined THEN -1
           ELSE Len(gal[At(galleries, activeGalleryIndex)].media),
     w |-> written]

Did(op, arg, threw) == last' = [op |-> op, arg |-> arg, threw |-> threw, pre |-> Pre]

\* storedGalleries.sort((a, b) => (a.order || 0) - (b.order || 0)) on the result
\* of getAll, which is in key order.
OrderOrZero(o) == IF IsNum(o) THEN o ELSE 0

\* The insertion of a sort that puts a record before the records of equal
\* order it follows in the store.
RECURSIVE InsertAsc_Unstable(_, _)
InsertAsc_Unstable(s, x) ==
    IF s = <<>> THEN <<x>>
    ELSE IF OrderOrZero(Head(s).order) < OrderOrZero(x.order)
         THEN <<Head(s)>> \o InsertAsc_Unstable(Tail(s), x)
         ELSE <<x>> \o s

\* The insertion of a sort by a.order - b.order: the difference with a
\* missing order is NaN, which the sort takes as 0, so a record without
\* order stays where the store has it.
RECURSIVE InsertAsc_NoDefault(_, _)
InsertAsc_NoDefault(s, x) ==
    IF s = <<>> THEN <<x>>
    ELSE IF ~IsNum(Head(s).order) \/ ~IsNum(x.order) \/ Head(s).order <= x.order
         THEN <<Head(s)>> \o InsertAsc_NoDefault(Tail(s), x)
         ELSE <<x>> \o s

RECURSIVE InsertAsc(_, _)
InsertAsc(s, x) ==
    IF s = <<>> THEN <<x>>
    ELSE IF OrderOrZero(Head(s).order) <= OrderOrZero(x.order)
         THEN <<Head(s)>> \o InsertAsc(Tail(s), x)
         ELSE <<x>> \o s

RECURSIVE SortByOrder(_)
SortByOrder(s) ==
    IF s = <<>> THEN <<>>
    ELSE InsertAsc(SortByOrder(SubSeq(s, 1, Len(s) - 1)), s[Len(s)])

RECURSIVE GetAll(_, _)
GetAll(st, id) ==
    IF id > MaxGalleries THEN <<>>
    ELSE (IF st[id].present
          THEN <<[id |-> id, order |-> st[id].order, isShuffled |-> st[id].isShuffled]>>
          ELSE <<>>) \o GetAll(st, id + 1)

\* db.init() resolves: the connection is open and loadFromStorage asks for
\* the records.
DbOpened ==
    /\ load.pc = "opening"
    /\ db' = "open"
    /\ load' = [pc |-> "reading", queue |-> GetAll(store, 1), entries |-> <<>>,
                 perm |-> "none", failed |-> {}, step |-> 0, stops |-> {}]
    /\ Did("init", 0, FALSE)
    /\ UNCHANGED <<jsVars, disk, foreign, nextId, written, readFaults, walk, naming, create, import>>

\* The browser closes the connection (the storage is cleared, the disk
\* fails): this.db stays the closed IDBDatabase, whose transaction() throws.
DbClosed ==
    /\ db = "open"
    /\ db' = "closed"
    /\ Did("dbClosed", 0, FALSE)
    /\ UNCHANGED <<jsVars, disk, foreign, nextId, written, readFaults, walk, naming, taskVars>>

\* db.init() rejects: app.init ends there, nothing is loaded.
DbFailed ==
    /\ load.pc = "opening"
    /\ load' = [pc |-> "done", queue |-> <<>>, entries |-> <<>>, perm |-> "none",
                            failed |-> {}, step |-> 0, stops |-> {}]
    /\ Did("init", 0, TRUE)
    /\ UNCHANGED <<jsVars, envVars, create, import>>

\* The end of loadFromStorage after the loop.
LoadEnd(w) ==
    LET w1 == IF Len(w.galleries) > 0 THEN selectGallery(w, 0) ELSE w
    IN  [w1 EXCEPT !.loading = FALSE, !.threw = FALSE]

\* loadGalleries resolves: the indicator, the sort, then the first gallery
\* is verified (or, with no record, the function ends).
LoadGot ==
    /\ load.pc = "reading"
    /\ LET q == SortByOrder(load.queue)
       IN  IF q = <<>>
           THEN /\ Commit(LoadEnd(World))
                /\ load' = [pc |-> "done", queue |-> <<>>, entries |-> <<>>, perm |-> "none",
                            failed |-> {}, step |-> 0, stops |-> {}]
           ELSE /\ Commit([World EXCEPT !.loading = TRUE])
                /\ load' = [pc |-> "loading", queue |-> q, entries |-> <<>>,
                             perm |-> "none", failed |-> {}, step |-> 0, stops |-> {}]
    /\ Did("loadGot", 0, FALSE)
    /\ UNCHANGED <<envVars, create, import>>

\* loadGalleries rejects: the catch block hides the indicator.
LoadFailed ==
    /\ load.pc = "reading"
    /\ Commit([World EXCEPT !.loading = FALSE])
    /\ load' = [pc |-> "done", queue |-> <<>>, entries |-> <<>>, perm |-> "none",
                            failed |-> {}, step |-> 0, stops |-> {}]
    /\ Did("loadGot", 0, TRUE)
    /\ UNCHANGED <<envVars, create, import>>

\* loadFromStorage once gallery.loadMedia() returned: the gallery is appended
\* and gets its tab; the loop goes on to verify the next record, or ends.
LoadPush(w, id, rest) ==
    LET w1 == [w EXCEPT !.galleries = Append(@, id)]
        w2 == addGalleryTab(w1, Len(w1.galleries) - 1)
    IN  IF rest = <<>> THEN LoadEnd(w2) ELSE w2

\* The load after the turn of the loop for the head of its queue.
LoadAfter(rest) ==
    IF rest = <<>> THEN [pc |-> "done", queue |-> <<>>, entries |-> <<>>, perm |-> "none",
                            failed |-> {}, step |-> 0, stops |-> {}]
    ELSE [pc |-> "loading", queue |-> rest, entries |-> <<>>, perm |-> "none",
                            failed |-> {}, step |-> 0, stops |-> {}]

\* queryPermission settles in the verifyPermission of a turn of the loop
\* of loadFromStorage without the permission: requestPermission is called.
\* (LoadQueried, below.)  One turn of the loop, verifyPermission returning
\* true: the Gallery object is constructed, gets the shuffle flag
\* and the order of its record, and loadMedia begins (it empties the list
\* and verifies the permission itself).
LoadQueried ==
    /\ load.pc = "loading"
    /\ "asks" \in Verdicts(load.step)
    /\ load' = [load EXCEPT !.step = 1]
    /\ Did("loadQueried", Head(load.queue).id, FALSE)
    /\ UNCHANGED <<jsVars, envVars, create, import>>

LoadGranted ==
    /\ load.pc = "loading"
    /\ "true" \in Verdicts(load.step)
    /\ LET rec == Head(load.queue)
           shuffled == IF rec.isShuffled = "true" THEN "true" ELSE "false"
       IN  /\ Commit([World EXCEPT
                          !.gal[rec.id] = [made |-> TRUE,
                                           order |-> OrderOrZero(rec.order),
                                           isShuffled |-> shuffled,
                                           media |-> <<>>]])
           /\ Did("loadVerified", rec.id, FALSE)
    /\ load' = [load EXCEPT !.pc = "scanning", !.step = 0]
    /\ UNCHANGED <<envVars, create, import>>

\* One turn of the loop with the permission denied: the gallery is skipped.
LoadDenied ==
    /\ load.pc = "loading"
    /\ "false" \in Verdicts(load.step)
    /\ LET rec == Head(load.queue)
           rest == Tail(load.queue)
       IN  /\ Commit(IF rest = <<>> THEN LoadEnd(World) ELSE World)
           /\ load' = LoadAfter(rest)
           /\ Did("loadDenied", rec.id, FALSE)
    /\ UNCHANGED <<envVars, create, import>>

\* queryPermission or requestPermission rejects: verifyPermission has no
\* handler, the catch block of loadFromStorage ends the whole load.  The
\* queue keeps the records the loop never reached.
LoadVerifyThrows ==
    /\ load.pc = "loading"
    /\ "throws" \in Verdicts(load.step)
    /\ Commit([World EXCEPT !.loading = FALSE])
    /\ load' = [pc |-> "done", queue |-> Tail(load.queue), entries |-> <<>>,
                perm |-> "none", failed |-> {}, step |-> 0, stops |-> {}]
    /\ Did("loadThrows", Head(load.queue).id, TRUE)
    /\ UNCHANGED <<envVars, create, import>>

\* queryPermission settles in the loadMedia of the load without the
\* permission: requestPermission is called.
LoadScanQueried ==
    /\ load.pc = "scanning"
    /\ "asks" \in Verdicts(load.step)
    /\ load' = [load EXCEPT !.step = 1]
    /\ Did("loadScanQueried", Head(load.queue).id, FALSE)
    /\ UNCHANGED <<jsVars, envVars, create, import>>

\* verifyPermission returns in the loadMedia of the load with the
\* permission: loadMedia goes on to enumerate the folder.
LoadScanGranted ==
    /\ load.pc = "scanning"
    /\ \E verdict \in Verdicts(load.step) \ {"asks"} :
         /\ Permitted(verdict)
         /\ load' = [load EXCEPT !.pc = "listing", !.perm = verdict, !.step = 0]
    /\ Did("loadScanGranted", Head(load.queue).id, FALSE)
    /\ UNCHANGED <<jsVars, envVars, create, import>>

\* The permission is denied to loadMedia, or its verification throws:
\* loadMedia returns with the empty list and the gallery is appended.
LoadScanDenied ==
    /\ load.pc = "scanning"
    /\ \E verdict \in Verdicts(load.step) \ {"asks"} : ~Permitted(verdict)
    /\ LET id == Head(load.queue).id
           rest == Tail(load.queue)
       IN  /\ Commit(LoadPush(World, id, rest))
           /\ load' = LoadAfter(rest)
           /\ Did("loadGallery", id, FALSE)
    /\ UNCHANGED <<envVars, create, import>>

\* A next() of the enumeration settles in the scan of the load and the scan
\* awaits another: an entry was returned, or an iterator ended or rejected
\* in a sub-directory.
LoadEntry ==
    /\ load.pc = "listing"
    /\ \E tree \in {FolderTree(disk[Head(load.queue).id], foreign)} :
       \E stops \in StopsNext(tree, load.step, load.stops, readFaults) :
          /\ load.step + 1 < Len(Settlements(tree, <<>>, stops))
          /\ load' = [load EXCEPT !.step = @ + 1, !.stops = stops]
    /\ Did("loadEntry", Head(load.queue).id, FALSE)
    /\ UNCHANGED <<jsVars, envVars, create, import>>

\* The last next() settles and scanDirectoryRecursive returns in the load,
\* with the supported files of the folder tree or, when an enumeration
\* rejected, with those it reached; with no entry loadMedia ends at once.
LoadListed ==
    /\ load.pc = "listing"
    /\ \E tree \in {FolderTree(disk[Head(load.queue).id], foreign)} :
       \E stops \in StopsNext(tree, load.step, load.stops, readFaults) :
       LET id == Head(load.queue).id
           rest == Tail(load.queue)
           e == FilesFound(tree, disk[id], foreign, stops)
       IN  /\ load.step + 1 = Len(Settlements(tree, <<>>, stops))
           /\ IF e = <<>>
              THEN /\ Commit(LoadPush(World, id, rest))
                   /\ load' = LoadAfter(rest)
                   /\ Did("loadGallery", id, FALSE)
              ELSE /\ load' = [load EXCEPT !.pc = "files", !.entries = e,
                                           !.step = 0, !.stops = {}]
                   /\ UNCHANGED jsVars
                   /\ Did("loadListed", id, FALSE)
    /\ UNCHANGED <<envVars, create, import>>

\* getFile of the next entry settles in the load: the descriptor is pushed
\* with a new object URL, or the entry is dropped; after the last entry the
\* list is sorted (and shuffled), loadMedia returns and the gallery is
\* appended.
LoadRead(ok) ==
    /\ load.pc = "files"
    /\ ok \/ readFaults
    /\ ok => urls < MaxUrls
    /\ LET id == Head(load.queue).id
           rest == Tail(load.queue)
           f == Head(load.entries)
           w1 == [World EXCEPT !.gal[id].media = readEntry(@, f, ok),
                               !.urls = IF ok THEN @ + 1 ELSE @]
       IN  IF Tail(load.entries) = <<>>
           THEN /\ \E m \in FinishMedia(MediaOf(w1, id), w1.gal[id].isShuffled) :
                     Commit(LoadPush([w1 EXCEPT !.gal[id].media = m], id, rest))
                /\ load' = LoadAfter(rest)
                /\ Did("loadGallery", id, FALSE)
           ELSE /\ Commit(w1)
                /\ load' = [load EXCEPT !.entries = Tail(@),
                                        !.failed = IF ok THEN @ ELSE @ \cup {f}]
                /\ Did(IF ok THEN "loadRead" ELSE "loadReadFailed", id, ~ok)
    /\ UNCHANGED <<envVars, create, import>>

\* What the form of the new-gallery dialog can hold when Create is clicked:
\* the value of #galleryName, and whether a folder was selected
\* (selectedDirectoryHandle is null until then).
GalleryNames == {"", "a"}

\* A test of the form that looks at the name alone.
Filled_NameOnly(name, chosen) == name # ""

\* The test of App.createGallery on the form: !name || !selectedDirectoryHandle
\* is false.
Filled(name, chosen) == name # "" /\ chosen

\* App.createGallery without a name or without a folder: the alert, nothing else.
CreateInvalid(name, chosen) ==
    /\ ~Filled(name, chosen)
    /\ Did("createInvalid", 0, FALSE)
    /\ UNCHANGED <<jsVars, envVars, taskVars>>

\* No createGallery is in flight for a gallery.
NoCreate ==
    [pc |-> "idle", entries |-> <<>>, perm |-> "none", failed |-> {},
     step |-> 0, stops |-> {}]

\* App.createGallery with the form filled, then GalleryManager.createGallery
\* up to the first await of loadMedia: the indicator, the Gallery object with
\* its id and its order (the length of the collection as it is now).  Nothing
\* tests whether an earlier createGallery is still running.
CreateStart(name, chosen) ==
    /\ Filled(name, chosen)
    /\ nextId <= MaxGalleries
    /\ create' = [create EXCEPT ![nextId].pc = "scanning"]
    /\ nextId' = nextId + 1
    /\ Commit([World EXCEPT !.loading = TRUE,
                            !.gal[nextId] = [NewGallery EXCEPT
                                                !.order = Len(galleries)]])
    /\ Did("createStart", nextId, FALSE)
    /\ UNCHANGED <<db, disk, foreign, written, readFaults, walk, naming, load, import>>

\* createGallery once loadMedia returned: the record is saved, the gallery
\* appended and selected, the indicator hidden.  A failing save ends the
\* function before the append.
createGalleryEnd(w, id) ==
    LET w1 == saveGallery(w, id)
    IN  IF w1.threw THEN w1
        ELSE LET w2 == addGalleryTab([w1 EXCEPT !.galleries = Append(@, id)],
                                     Len(w1.galleries))
                 w3 == selectGallery(w2, Len(w2.galleries) - 1)
             IN  IF w3.threw THEN w3 ELSE [w3 EXCEPT !.loading = FALSE]

\* queryPermission settles in the loadMedia of createGallery without the
\* permission: requestPermission is called.
CreateScanQueried(id) ==
    /\ create[id].pc = "scanning"
    /\ "asks" \in Verdicts(create[id].step)
    /\ create' = [create EXCEPT ![id].step = 1]
    /\ Did("createScanQueried", id, FALSE)
    /\ UNCHANGED <<jsVars, envVars, load, import>>

\* verifyPermission returns in the loadMedia of createGallery with the
\* permission: loadMedia goes on to enumerate the folder.
CreateScanGranted(id) ==
    /\ create[id].pc = "scanning"
    /\ \E verdict \in Verdicts(create[id].step) \ {"asks"} :
         /\ Permitted(verdict)
         /\ create' = [create EXCEPT ![id].pc = "listing", ![id].perm = verdict,
                                     ![id].step = 0]
    /\ Did("createScanGranted", id, FALSE)
    /\ UNCHANGED <<jsVars, envVars, load, import>>

\* The permission is denied to loadMedia, or its verification throws:
\* loadMedia returns with the empty list and createGallery goes on.
CreateScanDenied(id) ==
    /\ create[id].pc = "scanning"
    /\ \E verdict \in Verdicts(create[id].step) \ {"asks"} : ~Permitted(verdict)
    /\ LET w == createGalleryEnd(World, id)
       IN  Commit(w) /\ Did("createGallery", id, w.threw)
    /\ create' = [create EXCEPT ![id] = NoCreate]
    /\ UNCHANGED <<envVars, load, import>>

\* A next() of the enumeration settles in the scan of createGallery and the
\* scan awaits another.
CreateEntry(id) ==
    /\ create[id].pc = "listing"
    /\ \E tree \in {FolderTree(disk[id], foreign)} :
       \E stops \in StopsNext(tree, create[id].step, create[id].stops, readFaults) :
          /\ create[id].step + 1 < Len(Settlements(tree, <<>>, stops))
          /\ create' = [create EXCEPT ![id].step = @ + 1, ![id].stops = stops]
    /\ Did("createEntry", id, FALSE)
    /\ UNCHANGED <<jsVars, envVars, load, import>>

\* The last next() settles and scanDirectoryRecursive returns in
\* createGallery, with the supported files of the folder tree or with those
\* it reached; with no entry loadMedia ends at once.
CreateListed(id) ==
    /\ create[id].pc = "listing"
    /\ \E tree \in {FolderTree(disk[id], foreign)} :
       \E stops \in StopsNext(tree, create[id].step, create[id].stops, readFaults) :
       LET w == createGalleryEnd(World, id)
           e == FilesFound(tree, disk[id], foreign, stops)
       IN  /\ create[id].step + 1 = Len(Settlements(tree, <<>>, stops))
           /\ IF e = <<>>
              THEN /\ Commit(w) /\ Did("createGallery", id, w.threw)
                   /\ create' = [create EXCEPT ![id] = NoCreate]
              ELSE /\ create' = [create EXCEPT ![id].pc = "files", ![id].entries = e,
                                               ![id].step = 0, ![id].stops = {}]
                   /\ UNCHANGED jsVars
                   /\ Did("createListed", id, FALSE)
    /\ UNCHANGED <<envVars, load, import>>

\* getFile of the next entry settles in createGallery: the descriptor is
\* pushed with a new object URL, or the entry is dropped; after the last
\* entry the list is sorted, loadMedia returns and createGallery goes on to
\* its end.
CreateRead(id, ok) ==
    /\ create[id].pc = "files"
    /\ ok \/ readFaults
    /\ ok => urls < MaxUrls
    /\ LET f == Head(create[id].entries)
           w1 == [World EXCEPT !.gal[id].media = readEntry(@, f, ok),
                               !.urls = IF ok THEN @ + 1 ELSE @]
       IN  IF Tail(create[id].entries) = <<>>
           THEN /\ \E m \in FinishMedia(MediaOf(w1, id), w1.gal[id].isShuffled) :
                     LET w == createGalleryEnd([w1 EXCEPT !.gal[id].media = m], id)
                     IN  Commit(w) /\ Did("createGallery", id, w.threw)
                /\ create' = [create EXCEPT ![id] = NoCreate]
           ELSE /\ Commit(w1)
                /\ create' = [create EXCEPT ![id].entries = Tail(@),
                                            ![id].failed =
                                                IF ok THEN @ ELSE @ \cup {f}]
                /\ Did(IF ok THEN "createRead" ELSE "createReadFailed", id, ~ok)
    /\ UNCHANGED <<envVars, load, import>>

\* ----------------------------------------------------------------- import

Slots == {"drop", "paste"}

\* Files of imports that are still to be written.
Pending == LET n(s) == import[s].files +
                         (IF import[s].pc \in {"verifying", "writing"} THEN 1 ELSE 0)
           IN  n("drop") + n("paste")

\* The loop of handleDrop / handlePaste from the file that comes next: with
\* no active gallery saveFileToActiveGallery throws at once, the handler
\* reports it and goes on; otherwise the write permission is verified.
\* After the last file the active gallery is rescanned: loadMedia empties its
\* list and verifies the permission.  The result is the new state and the
\* task; perm is the verdict of the verification the task last awaited.
ImportLoop(w, files) ==
    LET g == ActiveGallery(w)
    IN  IF g = Undefined THEN [w |-> w, t |-> Idle]
        ELSE IF files > 0
             THEN [w |-> w, t |-> [pc |-> "verifying", g |-> g, files |-> files - 1,
                                   entries |-> <<>>, perm |-> "none", failed |-> {},
                                   step |-> 0, stops |-> {}]]
             ELSE [w |-> [w EXCEPT !.gal[g].media = <<>>, !.revoked[g] = 0],
                   t |-> [pc |-> "scanning", g |-> g, files |-> 0, entries |-> <<>>,
                          perm |-> "none", failed |-> {}, step |-> 0, stops |-> {}]]

\* App.handleDrop with n files, App.handlePaste with n >= 1 files.
ImportStart(s, n) ==
    /\ import[s].pc = "idle"
    /\ s = "paste" => n >= 1
    /\ written + Pending + n <= MaxImports
    /\ LET r == ImportLoop(World, n)
       IN  Commit(r.w) /\ import' = [import EXCEPT ![s] = r.t]
    /\ Did(s, n, FALSE)
    /\ UNCHANGED <<envVars, load, create>>

\* queryPermission settles in saveFileToActiveGallery without the
\* permission: requestPermission is called.
ImportQueried(s) ==
    /\ import[s].pc = "verifying"
    /\ "asks" \in Verdicts(import[s].step)
    /\ import' = [import EXCEPT ![s].step = 1]
    /\ Did("queried", import[s].g, FALSE)
    /\ UNCHANGED <<jsVars, envVars, load, create>>

\* verifyPermission returns in saveFileToActiveGallery: with the permission
\* the file is created and written; without it, or when the verification
\* throws, saveFileToActiveGallery throws, the handler reports it and goes on
\* with the next file.
ImportVerified(s) ==
    /\ import[s].pc = "verifying"
    /\ \E verdict \in Verdicts(import[s].step) \ {"asks"} :
         LET r == ImportLoop(World, import[s].files)
         IN  IF Permitted(verdict)
             THEN /\ import' = [import EXCEPT ![s].pc = "writing",
                                              ![s].perm = verdict,
                                              ![s].step = 0]
                  /\ UNCHANGED jsVars
                  /\ Did("verified", import[s].g, FALSE)
             ELSE /\ Commit(r.w) /\ import' = [import EXCEPT ![s] = r.t]
                  /\ Did("writeDenied", import[s].g, TRUE)
    /\ UNCHANGED <<envVars, load, create>>

\* The time of the one import whose file is named (the time does not reach
\* the extension).
ImportTime == <<"1", "-", "2", "T", "3", ":", "4", ":", "5", ".", "6", "Z">>

\* getFileHandle(filename, {create: true}) resolves: the file, still empty,
\* is in the folder of the gallery that was active when
\* saveFileToActiveGallery began, under the name made from the name and the
\* type of the imported file; a later scan skips it when that name has no
\* supported extension.
ImportCreated(s) ==
    /\ import[s].pc = "writing"
    /\ LET g == import[s].g
           f == InitFiles + written + 1
       IN  /\ disk' = [disk EXCEPT ![g] = @ \cup {f}]
           /\ \E name \in ImportNames, type \in ImportTypes :
                 foreign' = IF TypeOf(FileNameFor(name, type, ImportTime)) = "none"
                            THEN foreign \cup {f} ELSE foreign
           /\ written' = written + 1
           /\ import' = [import EXCEPT ![s].pc = "filling"]
           /\ Did("created", g, FALSE)
    /\ UNCHANGED <<jsVars, db, nextId, readFaults, walk, naming, load, create>>

\* getFileHandle rejects: no file is made, saveFileToActiveGallery rethrows,
\* the handler reports it and goes on with the next file.
ImportCreateFailed(s) ==
    /\ import[s].pc = "writing"
    /\ LET r == ImportLoop(World, import[s].files)
       IN  Commit(r.w) /\ import' = [import EXCEPT ![s] = r.t]
    /\ Did("createFailed", import[s].g, TRUE)
    /\ UNCHANGED <<envVars, load, create>>

\* createWritable or write resolves: saveFileToActiveGallery awaits the
\* next call on the file (write, then close).
ImportWriting(s) ==
    /\ import[s].pc = "filling"
    /\ import[s].step < 2
    /\ import' = [import EXCEPT ![s].step = @ + 1]
    /\ Did("writing", import[s].g, FALSE)
    /\ UNCHANGED <<jsVars, envVars, load, create>>

\* close resolves: the handler goes on with the next file.
ImportWritten(s) ==
    /\ import[s].pc = "filling"
    /\ import[s].step = 2
    /\ LET r == ImportLoop(World, import[s].files)
       IN  Commit(r.w) /\ import' = [import EXCEPT ![s] = r.t]
    /\ Did("written", import[s].g, FALSE)
    /\ UNCHANGED <<envVars, load, create>>

\* createWritable, write or close rejects: the file made by getFileHandle
\* stays in the folder, saveFileToActiveGallery rethrows, the handler
\* reports it and goes on with the next file.
ImportWriteFailed(s) ==
    /\ import[s].pc = "filling"
    /\ LET r == ImportLoop(World, import[s].files)
       IN  Commit(r.w) /\ import' = [import EXCEPT ![s] = r.t]
    /\ Did("writeFailed", import[s].g, TRUE)
    /\ UNCHANGED <<envVars, load, create>>

\* ImportEnd that also leaves Random mode.
ImportEnd_Sequential(w, g) ==
    displayMedia(displayThumbnails([w EXCEPT !.isRandomMode = "false"], g), 0)

\* The end of the handler once loadMedia returned.
ImportEnd(w, g) == displayMedia(displayThumbnails(w, g), 0)

\* The end of loadMedia on gallery g, then the end of the handler.
RescanEnd(w, g) ==
    { ImportEnd([w EXCEPT !.gal[g].media = m], g) :
        m \in FinishMedia(MediaOf(w, g), w.gal[g].isShuffled) }

\* queryPermission settles in the rescan without the permission:
\* requestPermission is called.
ImportScanQueried(s) ==
    /\ import[s].pc = "scanning"
    /\ "asks" \in Verdicts(import[s].step)
    /\ import' = [import EXCEPT ![s].step = 1]
    /\ Did("scanQueried", import[s].g, FALSE)
    /\ UNCHANGED <<jsVars, envVars, load, create>>

\* verifyPermission returns in the rescan with the permission: loadMedia
\* goes on to enumerate the folder.
ImportScanGranted(s) ==
    /\ import[s].pc = "scanning"
    /\ \E verdict \in Verdicts(import[s].step) \ {"asks"} :
         /\ Permitted(verdict)
         /\ import' = [import EXCEPT ![s].pc = "listing", ![s].perm = verdict,
                                     ![s].step = 0]
    /\ Did("scanGranted", import[s].g, FALSE)
    /\ UNCHANGED <<jsVars, envVars, load, create>>

\* The rescan gets no entry: the permission is denied or its verification
\* throws (loadMedia returns with the list as it is).
ImportScanDenied(s) ==
    /\ import[s].pc = "scanning"
    /\ \E verdict \in Verdicts(import[s].step) \ {"asks"} : ~Permitted(verdict)
    /\ Commit(ImportEnd(World, import[s].g))
    /\ import' = [import EXCEPT ![s] = Idle]
    /\ Did("scanDenied", import[s].g, FALSE)
    /\ UNCHANGED <<envVars, load, create>>

\* A next() of the enumeration settles in the rescan and the scan awaits
\* another.  The enumeration returns the entries the folder holds when it
\* reaches their place, a file made meanwhile included.
ImportEntry(s) ==
    /\ import[s].pc = "listing"
    /\ \E tree \in {FolderTree(disk[import[s].g], foreign)} :
       \E stops \in StopsNext(tree, import[s].step, import[s].stops, readFaults) :
          /\ import[s].step + 1 < Len(Settlements(tree, <<>>, stops))
          /\ import' = [import EXCEPT ![s].step = @ + 1, ![s].stops = stops]
    /\ Did("entry", import[s].g, FALSE)
    /\ UNCHANGED <<jsVars, envVars, load, create>>

\* The last next() settles and scanDirectoryRecursive returns in the rescan,
\* with the supported files of the folder tree or with those it reached;
\* with no entry loadMedia ends at once.
ImportScanned(s) ==
    /\ import[s].pc = "listing"
    /\ \E tree \in {FolderTree(disk[import[s].g], foreign)} :
       \E stops \in StopsNext(tree, import[s].step, import[s].stops, readFaults) :
       LET g == import[s].g
           e == FilesFound(tree, disk[g], foreign, stops)
       IN  /\ import[s].step + 1 = Len(Settlements(tree, <<>>, stops))
           /\ IF e = <<>>
              THEN /\ \E w \in RescanEnd(World, g) : Commit(w)
                   /\ import' = [import EXCEPT ![s] = Idle]
              ELSE /\ import' = [import EXCEPT ![s].pc = "reading", ![s].entries = e,
                                               ![s].step = 0, ![s].stops = {}]
                   /\ UNCHANGED jsVars
    /\ Did("scanned", import[s].g, FALSE)
    /\ UNCHANGED <<envVars, load, create>>

\* getFile of the next entry resolves (ok, the descriptor is pushed) or
\* rejects (the entry is dropped); after the last entry loadMedia ends.
\* failed keeps the entries of this scan that getFile rejected.
ImportRead(s, ok) ==
    /\ import[s].pc = "reading"
    /\ ok \/ readFaults
    /\ ok => urls < MaxUrls
    /\ LET g == import[s].g
           f == Head(import[s].entries)
           rest == Tail(import[s].entries)
           w1 == [World EXCEPT !.gal[g].media = readEntry(@, f, ok),
                               !.urls = IF ok THEN @ + 1 ELSE @]
       IN  IF rest = <<>>
           THEN /\ \E w \in RescanEnd(w1, g) : Commit(w)
                /\ import' = [import EXCEPT ![s] = Idle]
           ELSE /\ Commit(w1)
                /\ import' = [import EXCEPT ![s].entries = rest,
                                           ![s].failed =
                                               IF ok THEN @ ELSE @ \cup {f}]
    /\ Did(IF ok THEN "read" ELSE "readFailed", import[s].g, ~ok)
    /\ UNCHANGED <<envVars, load, create>>

\* A next() settles in the scan of the folder TreeOf(walk.name) and the
\* scan awaits another; stops keeps the entries at which an enumeration
\* rejected.
ScanEntry ==
    /\ walk.pc = "start"
    /\ \E tree \in {TreeOf(walk.name)} :
       \E stops \in StopsNext(tree, walk.step, walk.stops, readFaults) :
          /\ walk.step + 1 < Len(Settlements(tree, <<>>, stops))
          /\ walk' = [walk EXCEPT !.step = @ + 1, !.stops = stops]
    /\ UNCHANGED <<jsVars, db, disk, foreign, nextId, written, readFaults, naming,
                   taskVars, last>>

\* The last next() settles and the scan of the folder returns.
ScanTree ==
    /\ walk.pc = "start"
    /\ \E tree \in {TreeOf(walk.name)} :
       \E stops \in StopsNext(tree, walk.step, walk.stops, readFaults) :
          /\ walk.step + 1 = Len(Settlements(tree, <<>>, stops))
          /\ walk' = [walk EXCEPT !.pc = "done", !.step = @ + 1, !.stops = stops,
                                  !.files = scanDirectoryRecursive(tree, <<>>, stops)]
    /\ UNCHANGED <<jsVars, db, disk, foreign, nextId, written, readFaults, naming,
                   taskVars, last>>

\* saveFileToActiveGallery names the file it is about to write.
NameFile ==
    /\ naming.pc = "start"
    /\ naming' = [naming EXCEPT !.pc = "done",
                                !.filename = FileNameFor(naming.name, naming.type,
                                                         naming.time)]
    /\ UNCHANGED <<jsVars, db, disk, foreign, nextId, written, readFaults, walk,
                   taskVars, last>>

\* ------------------------------------------------------------- the events

Handler(op, arg, ws) ==
    /\ \E w \in ws : Commit(w) /\ Did(op, arg, w.threw)
    /\ UNCHANGED <<envVars, taskVars>>

\* A click on the tab with data-index i.
TabClick(i) == i \in tabs /\ Handler("selectGallery", i, {selectGallery(World, i)})

\* A click on the close button of the tab with data-index i.
TabClose(i) == i \in tabs /\ Handler("closeGallery", i, {closeGallery(World, i)})

\* handleTabDragStart on the tab with data-index i.
TabDragStart(i) ==
    i \in tabs /\ Handler("dragStart", i, {[World EXCEPT !.draggedTabIndex = i]})

\* handleTabDragEnd, at the end of a tab drag.
TabDragEnd ==
    /\ JsGe(draggedTabIndex, 0)
    /\ Handler("dragEnd", 0, {[World EXCEPT !.draggedTabIndex = -1]})

\* A drop on a tab: on the tab element with data-index t, or on one of its
\* children (t = NaN), with or without a tab drag in progress.
TabDrop(t) ==
    /\ tabs # {}
    /\ t \in tabs \cup {NaN}
    /\ Handler("handleTabDrop", t, {handleTabDrop(World, t)})

Key(k) == Handler(k, 0, handleKeyboard(World, k))

\* handleWheel outside a video: navigateMedia(+1 / -1).
Wheel(d) == Handler("wheel", d, navigateMedia(World, d))

\* A click on #randomButton.
RandomClick == randomButton /\ Handler("toggleRandomMedia", 0, toggleRandomMedia(World))

\* A click on #shuffleButton.
ShuffleClick == Handler("shuffleGallery", 0, shuffleGallery(World))

\* A click on the thumbnail at position i of the grid.
ThumbnailClick(i) ==
    i \in 0..(thumbnails - 1) /\ Handler("thumbnail", i, {thumbnailClick(World, i)})

\* ------------------------------------------------------ the specification

\* The records a previous session left: galleries 1..k, record id holding the
\* order orders[id], the galleries of the set shuffled left in shuffle mode.
\* A record without an order was written by the version of saveGallery that
\* stores no order and no shuffle flag.
StoreOf(k, orders, shuffled) ==
    [id \in GalleryIds |->
        IF id > k THEN NoRecord
        ELSE IF orders[id] = Undefined
             THEN [present |-> TRUE, order |-> Undefined,
                   isShuffled |-> "undefined"]
        ELSE [present |-> TRUE, order |-> orders[id],
              isShuffled |-> IF id \in shuffled THEN "true" ELSE "false"]]

\* The order fields a previous session can have left in k records, in key
\* order (the ids are creation times).  A record written by saveGallery holds
\* the order of its gallery object: galleries.length as createGallery read it
\* (equal for two creations that overlap, and equal to an order already held
\* after a close, which renumbers nothing), or the position a reorder gave,
\* which can be above the number of records that are left once galleries
\* were closed.  A record of the older version holds none, and keeps none
\* until its gallery is saved: reorderGalleries and shuffleGallery save only
\* galleries of the collection, and a gallery whose folder was denied at the
\* load is not in it.  So every combination occurs, a record without order
\* after a record with an order above 0 included.
OrdersAtStart(k) == [1..k -> {Undefined} \cup 0..MaxOrder]

\* No folder of named entries is scanned.
NoWalk == [pc |-> "done", name |-> <<>>, step |-> 0, stops |-> {}, files |-> <<>>]

\* No imported file is named.
NoNaming == [pc |-> "done", name |-> <<>>, type |-> <<>>, time |-> <<>>,
             filename |-> <<>>]

Init ==
    /\ walk \in {NoWalk} \cup { [pc |-> "start", name |-> n, step |-> 0, stops |-> {},
                                   files |-> <<>>] : n \in Names }
    /\ naming \in {NoNaming} \cup
                   { [pc |-> "start", name |-> n, type |-> t, time |-> d,
                      filename |-> <<>>] :
                       n \in ImportNames, t \in ImportTypes, d \in ImportTimes }
    /\ db = "null"
    /\ \E k \in 0..MaxGalleries :
         \E orders \in OrdersAtStart(k), shuffled \in SUBSET (1..k) :
            store = StoreOf(k, orders, shuffled) /\ nextId = k + 1
    /\ disk = [g \in GalleryIds |-> FolderAtStart(g)]
    /\ foreign = {}
    /\ gal = [g \in GalleryIds |-> NoGallery]
    /\ galleries = <<>>
    /\ activeGalleryIndex = -1
    /\ activeMediaIndex = Undefined
    /\ isRandomMode = "undefined"
    /\ previousMediaIndex = Undefined
    /\ draggedTabIndex = Undefined
    /\ tabs = {}
    /\ thumbnails = 0
    /\ randomButton = FALSE
    /\ loading = FALSE
    /\ urls = 0
    /\ revoked = [g \in GalleryIds |-> 0]
    /\ written = 0
    /\ readFaults \in BOOLEAN
    /\ load = [pc |-> "opening", queue |-> <<>>, entries |-> <<>>, perm |-> "none",
                            failed |-> {}, step |-> 0, stops |-> {}]
    /\ create = [g \in GalleryIds |-> NoCreate]
    /\ import = [s \in Slots |-> Idle]
    /\ last = [op |-> "new", arg |-> 0, threw |-> FALSE,
               pre |-> [gs |-> <<>>, n |-> 0, a |-> -1, m |-> Undefined, r |-> "undefined",
                        p |-> Undefined, c |-> -1, w |-> 0]]

Next ==
    \/ ScanEntry
    \/ ScanTree
    \/ NameFile
    \/ DbOpened
    \/ DbClosed
    \/ DbFailed
    \/ LoadGot
    \/ LoadFailed
    \/ LoadQueried
    \/ LoadGranted
    \/ LoadDenied
    \/ LoadVerifyThrows
    \/ LoadScanQueried
    \/ LoadScanGranted
    \/ LoadScanDenied
    \/ LoadEntry
    \/ LoadListed
    \/ \E ok \in BOOLEAN : LoadRead(ok)
    \/ \E name \in GalleryNames, chosen \in BOOLEAN : CreateInvalid(name, chosen)
    \/ \E name \in GalleryNames, chosen \in BOOLEAN : CreateStart(name, chosen)
    \/ \E id \in GalleryIds : CreateScanQueried(id)
    \/ \E id \in GalleryIds : CreateScanGranted(id)
    \/ \E id \in GalleryIds : CreateScanDenied(id)
    \/ \E id \in GalleryIds : CreateEntry(id)
    \/ \E id \in GalleryIds : CreateListed(id)
    \/ \E id \in GalleryIds, ok \in BOOLEAN : CreateRead(id, ok)
    \/ \E s \in Slots, n \in 0..MaxImports : ImportStart(s, n)
    \/ \E s \in Slots : ImportQueried(s)
    \/ \E s \in Slots : ImportVerified(s)
    \/ \E s \in Slots : ImportCreated(s)
    \/ \E s \in Slots : ImportCreateFailed(s)
    \/ \E s \in Slots : ImportWriting(s)
    \/ \E s \in Slots : ImportWritten(s)
    \/ \E s \in Slots : ImportWriteFailed(s)
    \/ \E s \in Slots : ImportScanQueried(s)
    \/ \E s \in Slots : ImportScanGranted(s)
    \/ \E s \in Slots : ImportScanDenied(s)
    \/ \E s \in Slots : ImportEntry(s)
    \/ \E s \in Slots : ImportScanned(s)
    \/ \E s \in Slots, ok \in BOOLEAN : ImportRead(s, ok)
    \/ \E i \in 0..(MaxGalleries - 1) : TabClick(i)
    \/ \E i \in 0..(MaxGalleries - 1) : TabClose(i)
    \/ \E i \in 0..(MaxGalleries - 1) : TabDragStart(i)
    \/ TabDragEnd
    \/ \E t \in (0..(MaxGalleries - 1)) \cup {NaN} : TabDrop(t)
    \/ \E k \in {"ArrowRight", "ArrowLeft", "r"} : Key(k)
    \/ \E d \in {1, -1} : Wheel(d)
    \/ RandomClick
    \/ ShuffleClick
    \/ \E i \in 0..(MaxFiles - 1) : ThumbnailClick(i)

\* The whole program.
Spec == Init /\ [][Next]_vars

\* The specifications below are the program under a restricted environment
\* (which events the user issues, which host failures occur); every
\* behaviour of each is a behaviour of Spec.

LoadSteps ==
    \/ DbOpened
    \/ DbFailed
    \/ LoadGot
    \/ LoadFailed
    \/ LoadQueried
    \/ LoadGranted
    \/ LoadDenied
    \/ LoadVerifyThrows
    \/ LoadScanQueried
    \/ LoadScanGranted
    \/ LoadScanDenied
    \/ LoadEntry
    \/ LoadListed
    \/ \E ok \in BOOLEAN : LoadRead(ok)

NavigationSteps ==
    \/ \E i \in 0..(MaxGalleries - 1) : TabClick(i)
    \/ \E k \in {"ArrowRight", "ArrowLeft", "r"} : Key(k)
    \/ \E d \in {1, -1} : Wheel(d)
    \/ RandomClick
    \/ ShuffleClick
    \/ \E i \in 0..(MaxFiles - 1) : ThumbnailClick(i)

\* The steps of a drop import that wait for the platform.
DropTask ==
    \/ ImportQueried("drop")
    \/ ImportVerified("drop")
    \/ ImportCreated("drop")
    \/ ImportCreateFailed("drop")
    \/ ImportWriting("drop")
    \/ ImportWritten("drop")
    \/ ImportWriteFailed("drop")
    \/ ImportScanQueried("drop")
    \/ ImportScanGranted("drop")
    \/ ImportScanDenied("drop")
    \/ ImportEntry("drop")
    \/ ImportScanned("drop")
    \/ \E ok \in BOOLEAN : ImportRead("drop", ok)

DropSteps ==
    \/ \E n \in 0..MaxImports : ImportStart("drop", n)
    \/ DropTask

CollectionSteps ==
    \/ \E name \in GalleryNames, chosen \in BOOLEAN : CreateInvalid(name, chosen)
    \/ \E name \in GalleryNames, chosen \in BOOLEAN : CreateStart(name, chosen)
    \/ \E id \in GalleryIds : CreateScanQueried(id)
    \/ \E id \in GalleryIds : CreateScanGranted(id)
    \/ \E id \in GalleryIds : CreateScanDenied(id)
    \/ \E id \in GalleryIds : CreateEntry(id)
    \/ \E id \in GalleryIds : CreateListed(id)
    \/ \E id \in GalleryIds, ok \in BOOLEAN : CreateRead(id, ok)
    \/ \E i \in 0..(MaxGalleries - 1) : TabClick(i)
    \/ \E i \in 0..(MaxGalleries - 1) : TabClose(i)
    \/ \E i \in 0..(MaxGalleries - 1) : TabDragStart(i)
    \/ TabDragEnd
    \/ \E t \in (0..(MaxGalleries - 1)) \cup {NaN} : TabDrop(t)

\* The collection: load, create, close, select, reorder; every file readable.
\* The scans of the folders of named entries alone.
InitWalk == naming = NoNaming /\ readFaults = FALSE /\ Init /\ ~store[1].present

\* The steps of the scan of a folder of named entries.
ScanSteps == ScanEntry \/ ScanTree

SpecWalk == InitWalk /\ [][ScanSteps]_vars

\* The load alone.
InitLoad == walk = NoWalk /\ naming = NoNaming /\ Init

\* The naming of imported files alone.
InitNaming == walk = NoWalk /\ readFaults = FALSE /\ Init /\ ~store[1].present

SpecNaming == InitNaming /\ [][NameFile]_vars

SpecLoad == InitLoad /\ [][LoadSteps]_vars

\* The stores whose orders are the positions at creation, or absent.
PlainStore == \A g \in GalleryIds : store[g].order \in {Undefined, g - 1}

\* The stores that hold no gallery in shuffle mode.
Unshuffled == \A g \in GalleryIds : store[g].isShuffled # "true"

\* The load and the drop import with its rescan, getFile and the
\* enumerations failing at will.
InitScan == InitLoad /\ readFaults = TRUE /\ ~store[2].present /\ PlainStore

NextScan == LoadSteps \/ DropSteps

SpecScan == InitScan /\ [][NextScan]_vars

\* The steps of the createGallery of gallery id that wait for the platform.
CreateTask(id) ==
    \/ CreateScanQueried(id)
    \/ CreateScanGranted(id)
    \/ CreateScanDenied(id)
    \/ CreateEntry(id)
    \/ CreateListed(id)
    \/ \E ok \in BOOLEAN : CreateRead(id, ok)

\* The scans of the load, of the creations and of the rescans after a drop
\* import, getFile and the enumeration of a directory failing at will.
\* The user creates one gallery at a time and before any file is dropped.
CreateFirst ==
    /\ written = 0
    /\ \A s \in Slots : import[s].pc = "idle"
    /\ \A id \in GalleryIds : create[id].pc = "idle"
    /\ \E name \in GalleryNames, chosen \in BOOLEAN : CreateStart(name, chosen)

\* The user drops files only while the run has had one gallery, the
\* persisted one or the first that was created, and no creation runs.
DropOnFirst ==
    /\ nextId = 2
    /\ \A id \in GalleryIds : create[id].pc = "idle"
    /\ \E n \in 0..MaxImports : ImportStart("drop", n)

ReadSteps ==
    \/ CreateFirst
    \/ \E id \in GalleryIds : CreateTask(id)
    \/ DropOnFirst
    \/ DropTask

NextReads == LoadSteps \/ ReadSteps

SpecReads == InitScan /\ [][NextReads]_vars

\* The scans of the folders of named entries with enumerations that reject.
InitTree == naming = NoNaming /\ readFaults = TRUE /\ Init /\ ~store[1].present

SpecTree == InitTree /\ [][ScanSteps]_vars

\* The load, and the drop and the paste imports with their rescans, which
\* can overlap.
ImportSteps ==
    \/ \E s \in Slots : \E n \in 0..MaxImports : ImportStart(s, n)
    \/ \E s \in Slots : ImportQueried(s)
    \/ \E s \in Slots : ImportVerified(s)
    \/ \E s \in Slots : ImportCreated(s)
    \/ \E s \in Slots : ImportCreateFailed(s)
    \/ \E s \in Slots : ImportWriting(s)
    \/ \E s \in Slots : ImportWritten(s)
    \/ \E s \in Slots : ImportWriteFailed(s)
    \/ \E s \in Slots : ImportScanQueried(s)
    \/ \E s \in Slots : ImportScanGranted(s)
    \/ \E s \in Slots : ImportScanDenied(s)
    \/ \E s \in Slots : ImportEntry(s)
    \/ \E s \in Slots : ImportScanned(s)
    \/ \E s \in Slots : \E ok \in BOOLEAN : ImportRead(s, ok)

InitOverlap ==
    InitLoad /\ readFaults = FALSE /\ ~store[2].present /\ PlainStore /\ Unshuffled

NextOverlap == LoadSteps \/ ImportSteps

SpecOverlap == InitOverlap /\ [][NextOverlap]_vars

InitCollection == InitLoad /\ readFaults = FALSE /\ Unshuffled

NextCollection == LoadSteps \/ CollectionSteps

SpecCollection == InitCollection /\ [][NextCollection]_vars

\* The collection while the connection to the store can be lost: load,
\* create, close, select, shuffle.
FaultSteps ==
    \/ DbClosed
    \/ \E name \in GalleryNames, chosen \in BOOLEAN : CreateStart(name, chosen)
    \/ \E id \in GalleryIds : CreateScanQueried(id)
    \/ \E id \in GalleryIds : CreateScanGranted(id)
    \/ \E id \in GalleryIds : CreateScanDenied(id)
    \/ \E id \in GalleryIds : CreateEntry(id)
    \/ \E id \in GalleryIds : CreateListed(id)
    \/ \E id \in GalleryIds, ok \in BOOLEAN : CreateRead(id, ok)
    \/ \E i \in 0..(MaxGalleries - 1) : TabClick(i)
    \/ \E i \in 0..(MaxGalleries - 1) : TabClose(i)
    \/ ShuffleClick

InitFaults == InitLoad /\ readFaults = FALSE /\ PlainStore /\ Unshuffled

NextFaults == LoadSteps \/ FaultSteps

SpecFaults == InitFaults /\ [][NextFaults]_vars

\* The same with the promises the load and a creation wait for settling in
\* the end: the open request, getAll, the permission queries, the scan.
\* Nothing obliges the user to click.
SpecFaultsFair ==
    SpecFaults /\ WF_vars(LoadSteps) /\ \A id \in GalleryIds : WF_vars(CreateTask(id))

\* A drop import into one of two galleries while tabs are clicked and
\* closed; every file readable.
SwitchSteps ==
    \/ \E i \in 0..(MaxGalleries - 1) : TabClick(i)
    \/ \E i \in 0..(MaxGalleries - 1) : TabClose(i)

InitSwitch ==
    /\ InitLoad /\ readFaults = FALSE /\ PlainStore /\ Unshuffled
    /\ \A g \in GalleryIds : store[g].present

NextSwitch == LoadSteps \/ DropSteps \/ SwitchSteps

SpecSwitch == InitSwitch /\ [][NextSwitch]_vars

\* Navigation in two loaded galleries while tabs are closed.
CloseSteps == \E i \in 0..(MaxGalleries - 1) : TabClose(i)

NextBrowse == LoadSteps \/ NavigationSteps \/ CloseSteps

SpecBrowse == InitSwitch /\ [][NextBrowse]_vars

\* Navigation in the loaded galleries.
InitNavigation == InitLoad /\ readFaults = TRUE /\ PlainStore /\ Unshuffled

NextNavigation == LoadSteps \/ NavigationSteps

SpecNavigation == InitNavigation /\ [][NextNavigation]_vars

\* Navigation while files are dropped into the one persisted gallery, whose
\* record the current saveGallery wrote; every file readable.
InitImport ==
    /\ InitLoad /\ readFaults = FALSE /\ ~store[2].present /\ PlainStore /\ Unshuffled
    /\ store[1].present => store[1].order # Undefined

\* The user drops files while the object URLs that the rescan after the
\* import creates, one per file of the folder, stay within MaxUrls: a rescan
\* that the bound on the URLs would stop half-way is not started.
DropWithinUrls ==
    \E n \in 0..MaxImports :
        /\ ActiveGallery(World) # Undefined =>
              urls + Cardinality(disk[ActiveGallery(World)]) + n <= MaxUrls
        /\ ImportStart("drop", n)

NextImport == LoadSteps \/ NavigationSteps \/ DropWithinUrls \/ DropTask

SpecImport == InitImport /\ [][NextImport]_vars

\* ------------------------------------------------------------- properties

\* The media count of the active gallery, -1 when no gallery is active.
Count ==
    IF At(galleries, activeGalleryIndex) = Undefined THEN -1
    ELSE Len(gal[At(galleries, activeGalleryIndex)].media)

\* C1: activeGalleryIndex is always either -1 or an index of the collection,
\* 0 <= activeGalleryIndex < number of galleries, and it is -1 whenever the
\* collection is empty.
C1_ActiveGalleryIndexValid ==
    /\ \/ activeGalleryIndex = -1
       \/ 0 <= activeGalleryIndex /\ activeGalleryIndex < Len(galleries)
    /\ galleries = <<>> => activeGalleryIndex = -1

\* C2: whenever a gallery is active, activeMediaIndex is an index of its media
\* list, or 0 when that list is empty; also while a rescan is in progress and
\* after a rescan that finds fewer media, or none.
C2_ActiveMediaIndexValid ==
    Count >= 0 =>
        IF Count = 0 THEN activeMediaIndex = 0
        ELSE 0 <= activeMediaIndex /\ activeMediaIndex < Count

\* C3: closing the gallery at index i of a collection of N galleries whose
\* active index is a leaves the active index at -1 if N = 1 and otherwise at
\* a - 1 if i < a, at min(i, N - 2) if i = a, and at a if i > a.
C3_CloseReselects ==
    (last.op = "closeGallery" /\ At(last.pre.gs, last.arg) # Undefined) =>
        LET i == last.arg
            a == last.pre.a
            N == last.pre.n
        IN  /\ N = 1 => activeGalleryIndex = -1
            /\ (N > 1 /\ JsLt(i, a)) => activeGalleryIndex = a - 1
            /\ (N > 1 /\ StrictEq(i, a)) => activeGalleryIndex = Min(i, N - 2)
            /\ (N > 1 /\ JsGt(i, a)) => activeGalleryIndex = a

\* The gallery before the active one has been closed.
C3_Witness ==
    /\ last.op = "closeGallery"
    /\ ~last.threw
    /\ last.pre.n = 2
    /\ last.arg = 0
    /\ last.pre.a = 1
    /\ activeGalleryIndex = 0

\* A step forward / backward of the user: arrow key or wheel.
Forward == last.op = "ArrowRight" \/ (last.op = "wheel" /\ last.arg = 1)
Backward == last.op = "ArrowLeft" \/ (last.op = "wheel" /\ last.arg = -1)

\* C4: selectGallery(index) with index < 0 or index >= number of galleries
\* changes nothing (activeGalleryIndex, activeMediaIndex, isRandomMode and
\* previousMediaIndex included); with a valid index it sets
\* activeGalleryIndex = index, activeMediaIndex = 0, isRandomMode = false
\* and previousMediaIndex = -1.
C4_SelectGallery ==
    /\ \A index \in {-2, -1, Len(galleries), Len(galleries) + 1} :
           selectGallery(World, index) = World
    /\ last.op = "selectGallery" =>
           /\ activeGalleryIndex = last.arg
           /\ activeMediaIndex = 0
           /\ isRandomMode = "false"
           /\ previousMediaIndex = -1

\* The second gallery has been selected while the first was shown in Random
\* mode at another item than the first.
C4_Witness ==
    /\ last.op = "selectGallery"
    /\ last.arg = 1
    /\ last.pre.a = 0
    /\ last.pre.r = "true"
    /\ last.pre.m > 0
    /\ last.pre.p >= 0
    /\ activeGalleryIndex = 1
    /\ isRandomMode = "false"

\* C5: in Sequential mode with an active gallery of count >= 1 media, a step
\* forward sets activeMediaIndex to (old + 1) mod count and a step backward
\* to (old - 1) mod count; with count = 0 the step changes nothing.
C5_SequentialStep ==
    ((Forward \/ Backward) /\ last.pre.r = "false") =>
        /\ (last.pre.c >= 1 /\ Forward) =>
               activeMediaIndex = (last.pre.m + 1) % last.pre.c
        /\ (last.pre.c >= 1 /\ Backward) =>
               activeMediaIndex = (last.pre.m - 1) % last.pre.c
        /\ last.pre.c = 0 =>
               /\ activeMediaIndex = last.pre.m
               /\ previousMediaIndex = last.pre.p
               /\ isRandomMode = last.pre.r

\* A step backward from the first of three items has wrapped to the last.
C5_Witness ==
    /\ Backward
    /\ last.pre.r = "false"
    /\ last.pre.c = 3
    /\ last.pre.m = 0
    /\ activeMediaIndex = 2

\* C6 as stated: while the active gallery is not re-selected, isRandomMode
\* goes from true to false only through the explicit random-mode toggle; not
\* through stepping, a click on a thumbnail, shuffling or an import.
C6_OnlyToggleLeavesRandom ==
    (last.pre.r = "true" /\ isRandomMode # "true") =>
        last.op \in {"toggleRandomMedia", "selectGallery"}

\* C6, amended: isRandomMode goes from true to false only through the
\* explicit random-mode toggle, a click on a thumbnail, or the selection of a
\* gallery (a click on a tab, or the selection that ends closeGallery,
\* createGallery and the load); not through stepping, shuffling or an import.
C6_ToggleOrThumbnailLeavesRandom ==
    (last.pre.r = "true" /\ isRandomMode # "true") =>
        last.op \in {"toggleRandomMedia", "thumbnail", "selectGallery",
                     "closeGallery", "createGallery", "loadGot", "loadGallery",
                     "loadDenied"}

\* An import has rescanned the active gallery and ended in Random mode.
C6_Witness ==
    /\ last.op \in {"read", "readFailed"}
    /\ import["drop"].pc = "idle"
    /\ last.pre.r = "true"
    /\ isRandomMode = "true"
    /\ Count > 1

\* C7: in Random mode a step forward in a gallery of count > 1 media sets
\* activeMediaIndex to an index of 0..count-1 other than the one it had, and
\* every such index is a possible outcome; with count <= 1 the step changes
\* neither activeMediaIndex nor previousMediaIndex.
C7_RandomForward ==
    /\ (Forward /\ last.pre.r = "true" /\ last.pre.c > 1) =>
           /\ activeMediaIndex \in 0..(last.pre.c - 1)
           /\ activeMediaIndex # last.pre.m
    /\ (Forward /\ last.pre.r = "true" /\ last.pre.c \in {0, 1}) =>
           /\ activeMediaIndex = last.pre.m
           /\ previousMediaIndex = last.pre.p
    /\ (isRandomMode = "true" /\ Count > 1) =>
           /\ {w.activeMediaIndex : w \in handleKeyboard(World, "ArrowRight")}
                  = (0..(Count - 1)) \ {activeMediaIndex}
           /\ {w.activeMediaIndex : w \in navigateMedia(World, 1)}
                  = (0..(Count - 1)) \ {activeMediaIndex}

\* A step forward in Random mode has jumped from the first of three items to
\* the last.
C7_Witness ==
    /\ Forward
    /\ last.pre.r = "true"
    /\ last.pre.c = 3
    /\ last.pre.m = 0
    /\ activeMediaIndex = 2

\* The outcomes of a step backward taken in state w: arrow key or wheel.
StepsBack(w) == handleKeyboard(w, "ArrowLeft") \cup navigateMedia(w, -1)

\* C8: in Random mode a step backward right after a step forward sets
\* activeMediaIndex back to the index held before the forward jump and sets
\* previousMediaIndex to -1; a second step backward right after it draws an
\* index other than the current one and records the current index as
\* previousMediaIndex.
C8_RandomBackward ==
    (Forward /\ last.pre.r = "true" /\ last.pre.c > 1) =>
        \A w \in StepsBack(World) :
            /\ w.activeMediaIndex = last.pre.m
            /\ w.previousMediaIndex = -1
            /\ \A w2 \in StepsBack(w) :
                   /\ w2.activeMediaIndex \in 0..(Count - 1)
                   /\ w2.activeMediaIndex # w.activeMediaIndex
                   /\ w2.previousMediaIndex = w.activeMediaIndex

\* A step backward has returned from the last of three items to the first,
\* which the step forward before it had left.
C8_Witness ==
    /\ Backward
    /\ last.pre.r = "true"
    /\ last.pre.c = 3
    /\ last.pre.m = 2
    /\ last.pre.p = 0
    /\ activeMediaIndex = 0
    /\ previousMediaIndex = -1

\* Random mode has been requested in Sequential mode with a gallery active:
\* by the toggle or by the R key.
Requested ==
    /\ last.op \in {"toggleRandomMedia", "r"}
    /\ last.pre.r = "false"
    /\ last.pre.c >= 0

\* C9 as stated: toggling random mode on, or requesting a random item, in
\* Sequential mode puts the manager in Random mode and sets
\* previousMediaIndex to the activeMediaIndex held just before, for every
\* active gallery whatever its media count.
C9_RequestRecordsIndex ==
    Requested => (isRandomMode = "true" /\ previousMediaIndex = last.pre.m)

\* C9, amended: in Sequential mode with an active gallery of more than one
\* media item, toggling random mode on or requesting a random item puts the
\* manager in Random mode and sets previousMediaIndex to the activeMediaIndex
\* held just before.  With at most one item the toggle puts the manager in
\* Random mode and leaves previousMediaIndex and activeMediaIndex as they
\* are, and the request of a random item changes none of the three.
C9_RequestRecordsIndexIfSeveral ==
    Requested =>
        /\ last.pre.c > 1 =>
               /\ isRandomMode = "true"
               /\ previousMediaIndex = last.pre.m
               /\ activeMediaIndex # last.pre.m
        /\ (last.pre.c <= 1 /\ last.op = "toggleRandomMedia") =>
               /\ isRandomMode = "true"
               /\ previousMediaIndex = last.pre.p
               /\ activeMediaIndex = last.pre.m
        /\ (last.pre.c <= 1 /\ last.op = "r") =>
               /\ isRandomMode = "false"
               /\ previousMediaIndex = last.pre.p
               /\ activeMediaIndex = last.pre.m

\* Random mode has been toggled on at the second of three items.
C9_Witness ==
    /\ last.op = "toggleRandomMedia"
    /\ last.pre.r = "false"
    /\ last.pre.c = 3
    /\ last.pre.m = 1
    /\ isRandomMode = "true"
    /\ previousMediaIndex = 1

\* C10: the R key toggles random mode: pressed while Random mode is on, it
\* turns Random mode off.
C10_RKeyToggles ==
    (last.op = "r" /\ last.pre.r = "true") => isRandomMode = "false"

\* ------------------------------------------------------------ Ordering

\* The last step was a drop that moved the tab at draggedTabIndex onto the tab
\* at last.arg, two distinct positions of a collection of galleries.
ValidMove ==
    /\ last.op = "handleTabDrop"
    /\ draggedTabIndex \in 0..(last.pre.n - 1)
    /\ last.arg \in 0..(last.pre.n - 1)
    /\ draggedTabIndex # last.arg
    /\ \A i \in 1..last.pre.n : last.pre.gs[i] # Undefined

\* C11: after a reorder between two distinct valid positions, the gallery at
\* position i has order i, for every position of the collection.
C11_ReorderRenumbers ==
    ValidMove =>
        \A i \in 1..Len(galleries) :
            galleries[i] # Undefined /\ gal[galleries[i]].order = i - 1

C11_Witness ==
    /\ ValidMove
    /\ Len(galleries) = 2
    /\ galleries[1] = last.pre.gs[2]
    /\ gal[galleries[1]].order = 0
    /\ gal[galleries[2]].order = 1

\* The order field of the gallery at position i of the collection.
OrderAt(i) == gal[galleries[i]].order

\* C12: in every reachable state no two galleries of the collection have the
\* same order value.
C12_OrdersUnique ==
    \A i, j \in 1..Len(galleries) :
        (i < j /\ galleries[i] # Undefined /\ galleries[j] # Undefined)
            => OrderAt(i) # OrderAt(j)

\* C13: in every reachable state the collection is sorted by order,
\* ascending.
C13_SortedByOrder ==
    \A i, j \in 1..Len(galleries) :
        (i < j /\ galleries[i] # Undefined /\ galleries[j] # Undefined)
            => OrderAt(i) <= OrderAt(j)

\* The longest row of tabs over which the adjustment of the active index is
\* checked on its own.
MaxTabs == 4

\* The sequence s without the entry at the 0-based position i.
Without(s, i) ==
    [k \in 1..(Len(s) - 1) |-> IF k <= i THEN s[k] ELSE s[k + 1]]

\* C14: a reorder between two distinct valid positions puts the gallery of
\* the source position at the target position, keeps the other galleries in
\* their relative order, and leaves the same gallery active.
C14_ReorderMoves ==
    ValidMove =>
        /\ Len(galleries) = last.pre.n
        /\ At(galleries, last.arg) = At(last.pre.gs, draggedTabIndex)
        /\ Without(galleries, last.arg) = Without(last.pre.gs, draggedTabIndex)
        /\ At(galleries, activeGalleryIndex) = At(last.pre.gs, last.pre.a)
        /\ \A n \in 2..MaxTabs : \A from, to, a \in 0..(n - 1) :
              from # to =>
                LET row == [k \in 1..n |-> k]
                    moved == SpliceInsert(SpliceRemove(row, from), to,
                                          At(row, from))
                IN  At(moved, DropActive(a, from, to)) = At(row, a)

\* The active gallery was the one crossed over by the moved tab.
C14_Witness ==
    /\ ValidMove
    /\ last.pre.a \in 0..(last.pre.n - 1)
    /\ last.pre.a # draggedTabIndex
    /\ activeGalleryIndex # last.pre.a
    /\ At(galleries, activeGalleryIndex) = At(last.pre.gs, last.pre.a)

\* ---------------------------------------------------------- Persistence

\* No load, creation or import is between two of its steps.
Quiescent ==
    /\ load.pc = "done"
    /\ \A id \in GalleryIds : create[id].pc = "idle"
    /\ \A s \in Slots : import[s].pc = "idle"

\* The record of gallery g holds the order and the shuffle flag of the
\* gallery object; a field the record lacks counts as the value the load
\* gives the object for it (order 0, not shuffled).
RecordMatches(g) ==
    /\ store[g].present
    /\ OrderOrZero(store[g].order) = gal[g].order
    /\ (IF store[g].isShuffled = "undefined" THEN "false"
        ELSE store[g].isShuffled) = gal[g].isShuffled

\* C15: whenever no operation is in flight and no write to the store has
\* failed, every gallery of the collection has a record whose shuffle flag
\* and order equal those of the gallery object.
C15_WriteThrough ==
    (Quiescent /\ db = "open") =>
        \A i \in 1..Len(galleries) :
            galleries[i] # Undefined => RecordMatches(galleries[i])

\* C16: a close of the gallery at a valid position that completes without
\* failure removes that gallery from the collection and its record from the
\* store, and leaves every other gallery at its relative position, with its
\* order value and its record unchanged.
C16_CloseFrame ==
    /\ \A i \in 0..(Len(galleries) - 1) :
          LET g == At(galleries, i)
              w == closeGallery(World, i)
          IN  (g # Undefined /\ ~w.threw) =>
                /\ w.galleries = Without(galleries, i)
                /\ \A k \in 1..Len(w.galleries) : w.galleries[k] # g
                /\ ~w.store[g].present
                /\ \A h \in GalleryIds \ {g} :
                      /\ w.store[h] = store[h]
                      /\ w.gal[h].order = gal[h].order
    /\ (last.op = "closeGallery" /\ ~last.threw) =>
          /\ galleries = Without(last.pre.gs, last.arg)
          /\ ~store[At(last.pre.gs, last.arg)].present

\* The first of two galleries was closed: the other one is left with the
\* order 1 and the record it had.
C16_Witness ==
    /\ last.op = "closeGallery" /\ ~last.threw
    /\ last.pre.n = 2 /\ last.arg = 0
    /\ galleries = <<last.pre.gs[2]>>
    /\ ~store[last.pre.gs[1]].present
    /\ store[galleries[1]].present
    /\ store[galleries[1]].order = 1
    /\ gal[galleries[1]].order = 1

\* ----------------------------------------------------------------- Load

\* Record g comes before record h in the load: smaller persisted order (a
\* missing one counts as 0), or the same order and earlier in the store,
\* which getAll reads in key order.
LoadsBefore(g, h) ==
    \/ OrderOrZero(store[g].order) < OrderOrZero(store[h].order)
    \/ OrderOrZero(store[g].order) = OrderOrZero(store[h].order) /\ g < h

\* C17: the load appends the galleries in ascending persisted order, records
\* of equal order in store order, one after another: a gallery is scanned
\* and appended before the turn of any later record starts.
C17_LoadInOrder ==
    /\ \A i, j \in 1..Len(galleries) :
          i < j => LoadsBefore(galleries[i], galleries[j])
    /\ \A i \in 1..Len(galleries) :
          gal[galleries[i]].order = OrderOrZero(store[galleries[i]].order)
    /\ load.pc = "loading" =>
          /\ \A i, j \in 1..Len(load.queue) :
                i < j => LoadsBefore(load.queue[i].id, load.queue[j].id)
          /\ \A i \in 1..Len(galleries), k \in 1..Len(load.queue) :
                LoadsBefore(galleries[i], load.queue[k].id)
          /\ \A g \in GalleryIds :
                gal[g].made <=> \E i \in 1..Len(galleries) : galleries[i] = g
    /\ load.pc \in {"scanning", "listing", "files"} =>
          LET id == Head(load.queue).id
          IN  /\ \A i \in 1..Len(galleries) : LoadsBefore(galleries[i], id)
              /\ \A k \in 2..Len(load.queue) : LoadsBefore(id, load.queue[k].id)
              /\ \A g \in GalleryIds :
                    gal[g].made <=>
                        (g = id \/ \E i \in 1..Len(galleries) : galleries[i] = g)

\* Two records were loaded of which the first holds an order above 0 and
\* the second holds none: the second, counted as 0, was loaded first.
C17_Witness ==
    /\ load.pc = "done"
    /\ last.op = "loadGallery"
    /\ galleries = <<2, 1>>
    /\ store[1].order > 0
    /\ store[2].order = Undefined

\* C18: when the permission check of a persisted gallery G does not grant
\* access during the load, G is not in the collection and the load goes on
\* to the remaining records: no failure raised while G is checked ends it
\* with records left.
C18_DenialSkipsOne ==
    last.op \in {"loadDenied", "loadThrows"} =>
        /\ \A i \in 1..Len(galleries) : galleries[i] # last.arg
        /\ load.pc = "done" => load.queue = <<>>

\* C19: verifyPermission never throws: whatever queryPermission and
\* requestPermission settle with when the load calls it, rejections
\* included, it returns true or false.
C19_VerifyNeverThrows ==
    load.pc = "loading" =>
        \A query, request \in Answers :
            verifyPermission(query, request) \in {"true", "false"}

\* ----------------------------------------------------------- Permission

\* C20: a folder is enumerated, and a file is created in it, only after the
\* verification of the read-write permission made earlier in the same
\* operation returned granted; when the verification does not grant, the
\* scan leaves an empty media list and the import writes nothing and fails.
C20_PermissionGated ==
    /\ \A s \in Slots :
          import[s].pc \in {"writing", "filling", "listing", "reading"}
              => import[s].perm = "true"
    /\ load.pc \in {"listing", "files"} => load.perm = "true"
    /\ load.pc \in {"scanning", "listing"} =>
          gal[Head(load.queue).id].media = <<>>
    /\ \A id \in GalleryIds :
          /\ create[id].pc \in {"listing", "files"} => create[id].perm = "true"
          /\ create[id].pc \in {"scanning", "listing"} => gal[id].media = <<>>
    /\ written # last.pre.w => last.op = "created"
    /\ \A g \in GalleryIds :
          disk[g] \subseteq FolderAtStart(g) \cup ((InitFiles + 1)..(InitFiles + written))
    /\ last.op = "created" =>
          \E s \in Slots : import[s].pc = "filling" /\ import[s].perm = "true"
    /\ last.op = "writeDenied" => (last.threw /\ written = last.pre.w)
    /\ last.op = "scanDenied" => gal[last.arg].media = <<>>

\* The file of a drop was created in the folder of the active gallery.
C20_Witness ==
    /\ last.op = "created"
    /\ written = last.pre.w + 1
    /\ InitFiles + written \in disk[last.arg]

\* ---------------------------------------------------------------- Media

\* Gallery g is being scanned: a loadMedia call on it has not returned.
Rescanning(g) ==
    \/ \E s \in Slots :
          import[s].g = g /\ import[s].pc \in {"scanning", "listing", "reading"}
    \/ load.pc \in {"scanning", "listing", "files"} /\ Head(load.queue).id = g
    \/ create[g].pc # "idle"

\* The list m is in non-increasing lastModified order.
Descending(m) ==
    \A i, j \in 1..Len(m) : i < j => m[i].lastModified >= m[j].lastModified

\* C21: after a scan of a gallery whose isShuffled flag is false completes,
\* its media list is in non-increasing lastModified order; files A (100),
\* B (300), C (200) give the list B, C, A.
C21_ScanSortsDescending ==
    /\ \A g \in GalleryIds :
          (gal[g].made /\ gal[g].isShuffled = "false" /\ ~Rescanning(g))
              => Descending(gal[g].media)
    /\ LET A == [path |-> 1, lastModified |-> 100]
           B == [path |-> 2, lastModified |-> 300]
           C == [path |-> 3, lastModified |-> 200]
       IN  SortByLastModified(<<A, B, C>>) = <<B, C, A>>

\* A rescan that followed an import ended with the new file, the most
\* recent one, at the head of the list and the oldest one at its end.
C21_Witness ==
    /\ last.op \in {"read", "scanned"}
    /\ import["drop"].pc = "idle"
    /\ written = 1
    /\ gal[last.arg].isShuffled = "false"
    /\ Len(gal[last.arg].media) = InitFiles + 1
    /\ gal[last.arg].media[1].path = InitFiles + 1
    /\ gal[last.arg].media[InitFiles + 1].path = 1

\* The paths of the descriptors of the list m.
PathSet(m) == { m[i].path : i \in 1..Len(m) }

\* The elements of the sequence a.
Range(a) == { a[i] : i \in 1..Len(a) }

\* The scans that are reading their entries: of the load, of a creation, of
\* the rescan after an import; each with its gallery, the entries still to
\* be read and the entries getFile rejected.
Reading ==
    (IF load.pc = "files"
     THEN {[g |-> Head(load.queue).id, entries |-> load.entries,
            failed |-> load.failed, by |-> "load"]}
     ELSE {})
    \cup { [g |-> id, entries |-> create[id].entries, failed |-> create[id].failed,
            by |-> "create"] : id \in { c \in GalleryIds : create[c].pc = "files" } }
    \cup { [g |-> import[s].g, entries |-> import[s].entries,
            failed |-> import[s].failed, by |-> "import"] :
             s \in { t \in Slots : import[t].pc = "reading" } }

\* The media lists the scan t can end with once its last entry is read (ok)
\* or rejected: the rest of loadMedia and what its caller does next.
Ends(t, ok) ==
    LET g == t.g
        w1 == [World EXCEPT !.gal[g].media = readEntry(@, Head(t.entries), ok)]
    IN  IF t.by = "import" THEN { w.gal[g].media : w \in RescanEnd(w1, g) }
        ELSE { (IF t.by = "load"
                THEN LoadPush([w1 EXCEPT !.gal[g].media = m], g, Tail(load.queue))
                ELSE createGalleryEnd([w1 EXCEPT !.gal[g].media = m], g)).gal[g].media :
                 m \in FinishMedia(MediaOf(w1, g), w1.gal[g].isShuffled) }

\* The scan t has in its list exactly the files of kept that are neither
\* still to be read nor rejected, each once, and ends with exactly the files
\* of kept that were not rejected, whatever the last read does.
Holds(t, kept) ==
    /\ Range(t.entries) \cup t.failed \subseteq kept
    /\ PathSet(gal[t.g].media) = kept \ (Range(t.entries) \cup t.failed)
    /\ Len(gal[t.g].media) = Cardinality(PathSet(gal[t.g].media))
    /\ Len(t.entries) = 1 =>
          \A ok \in BOOLEAN : \A m \in Ends(t, ok) :
              /\ PathSet(m) = kept \ (t.failed \cup (IF ok THEN {} ELSE {t.entries[1]}))
              /\ Len(m) = Cardinality(PathSet(m))

\* C22: a read of one entry that fails during a scan does not end the scan:
\* the media list holds every other supported file of the folder tree, only
\* the failing entries are missing.
C22_ReadFailureDropsOneEntry ==
    \A t \in Reading : Holds(t, disk[t.g] \ foreign)

\* The path q is the path p or the path of a directory above it.
Above(q, p) ==
    \/ q = p
    \/ Len(p) > Len(q) /\ SubSeq(p, 1, Len(q) + 1) = q \o <<"/">>

\* The enumerations that rejected at the entries of stops did not return
\* the entry of path p: a rejection came, in the directory of p or of one of
\* the directories above it, at that entry or at an entry before it.
Cut(nodes, stops, p) ==
    \E s, q \in nodes :
        s.path \in stops /\ Above(q.path, p) /\ s.dir = q.dir /\ s.pos <= q.pos

\* The supported files of the folder of gallery g that the enumerations
\* return when they reject at the entries of stops.
Returned(g, stops) ==
    LET nodes == Nodes(FolderTree(disk[g], foreign), <<>>)
    IN  { f \in disk[g] \ foreign : ~Cut(nodes, stops, PathOf(f, foreign)) }

\* The galleries whose folder a scan is about to enumerate.
Enumerating ==
    (IF load.pc = "listing" THEN {Head(load.queue).id} ELSE {})
    \cup { id \in GalleryIds : create[id].pc = "listing" }
    \cup { import[s].g : s \in { t \in Slots : import[t].pc = "listing" } }

\* C22 as it holds: a getFile that rejects drops that entry alone, and an
\* enumeration that rejects drops the entries of its directory it had not
\* returned yet (with what lies below them) and nothing else: the scan goes
\* on in the directory above, reads the entries it was given and ends with
\* every one of them that getFile did not reject.
C22_FailureDropsWhatItConcerns ==
    /\ \A g \in Enumerating :
          \A stops \in StopSets(FolderTree(disk[g], foreign), readFaults) :
              LET kept(f) == f \in Returned(g, stops)
              IN  ScanFolder(disk[g], foreign, stops) =
                      SelectSeq(Listing(disk[g] \ foreign), kept)
    /\ \A t \in Reading :
          \E stops \in StopSets(FolderTree(disk[t.g], foreign), readFaults) :
              Holds(t, Returned(t.g, stops))

\* The same of the scan of a folder of named entries, three directories
\* deep: it returns what the scan without rejections returns, less the
\* entries that were cut.
ScanReturnsWhatWasNotCut ==
    (walk.pc = "done" /\ walk.name # <<>>) =>
        LET tree == TreeOf(walk.name)
            nodes == Nodes(tree, <<>>)
            kept(x) == ~Cut(nodes, walk.stops, x.path)
        IN  walk.files = SelectSeq(scanDirectoryRecursive(tree, <<>>, {}), kept)

\* A rescan after an import: the enumeration of the sub-directory d rejected
\* and file 2 in it was not returned, getFile rejected file 3, file 1 is in
\* the list and the imported file 4, which comes after d, is still to be
\* read.
C22_Witness ==
    /\ last.op = "readFailed"
    /\ import["drop"].pc = "reading"
    /\ disk[import["drop"].g] = 1..4
    /\ import["drop"].failed = {3}
    /\ import["drop"].entries = <<4>>
    /\ PathSet(gal[import["drop"].g].media) = {1}

\* ------------------------------------------------------------------ Scan

\* The name n has a '.' followed by ext and by no further '.'.
EndsWith(n, ext) ==
    \E k \in 1..Len(n) :
        /\ n[k] = "."
        /\ \A j \in (k + 1)..Len(n) : n[j] # "."
        /\ toLowerCase(SubSeq(n, k + 1, Len(n))) = ext

\* The kind the rule on extensions gives the name n: Image, Video, or none
\* (also for a name without '.').
KindOf(n) ==
    IF \E ext \in ImageFormats : EndsWith(n, Tail(ext)) THEN "image"
    ELSE IF \E ext \in VideoFormats : EndsWith(n, Tail(ext)) THEN "video"
    ELSE "none"

\* C23: a scan includes a file entry, at any depth, exactly when the text
\* after the last '.' of its name is a supported extension, whatever its
\* case; a name without '.' is skipped; the path of an included file is the
\* names of its enclosing sub-directories and its own, joined by '/'.
C23_ScanFilter ==
    walk.pc = "done" /\ walk.name # <<>> =>
        LET n == walk.name
            d == <<"d">>
            e == <<"e", ".", "j", "p", "g">>
        IN  IF KindOf(n) = "none" THEN walk.files = <<>>
            ELSE walk.files =
                   << [path |-> n, type |-> KindOf(n)],
                      [path |-> d \o <<"/">> \o e \o <<"/">> \o n,
                       type |-> KindOf(n)],
                      [path |-> d \o <<"/">> \o n, type |-> KindOf(n)] >>

\* The arrangements of the elements of the list m, each once.
Arrangements(m) ==
    { [i \in 1..Len(m) |-> m[f[i]]] :
        f \in { h \in [1..Len(m) -> 1..Len(m)] :
                  \A i, j \in 1..Len(m) : h[i] = h[j] => i = j } }

\* The entries of a listing that getFile can read: every sub-list of it.
RECURSIVE SubLists(_)
SubLists(a) ==
    IF a = <<>> THEN {<<>>}
    ELSE LET rest == SubLists(Tail(a))
         IN  rest \cup { <<Head(a)>> \o r : r \in rest }

\* The descriptors of the entries a, in their order.
Descriptors(a) == [i \in 1..Len(a) |-> Descriptor(a[i])]

\* C24: after a scan of a gallery whose isShuffled flag is true, the media
\* list holds each scanned descriptor exactly once, and every arrangement of
\* the scanned descriptors is a possible outcome.
C24_ShuffledScan ==
    /\ \A g \in GalleryIds :
          (gal[g].made /\ gal[g].isShuffled = "true" /\ ~Rescanning(g)) =>
              /\ PathSet(gal[g].media) \subseteq disk[g]
              /\ Len(gal[g].media) = Cardinality(PathSet(gal[g].media))
              /\ \A i \in 1..Len(gal[g].media) :
                    gal[g].media[i] = Descriptor(gal[g].media[i].path)
    /\ \A g \in GalleryIds : \A a \in SubLists(Listing(disk[g])) :
          FinishMedia(Descriptors(a), "true") = Arrangements(Descriptors(a))
    /\ \A s \in Slots :
          (import[s].pc = "reading" /\ Len(import[s].entries) = 1
              /\ gal[import[s].g].isShuffled = "true") =>
              LET g == import[s].g
                  w1 == [World EXCEPT
                            !.gal[g].media = readEntry(@, Head(import[s].entries), TRUE)]
              IN  { w.gal[g].media : w \in RescanEnd(w1, g) }
                      = Arrangements(w1.gal[g].media)

\* The rescan of a shuffled gallery after an import ended with all the files
\* of the folder in the list, the oldest of them first.
C24_Witness ==
    /\ last.op = "read"
    /\ import["drop"].pc = "idle"
    /\ gal[last.arg].isShuffled = "true"
    /\ written = 1
    /\ PathSet(gal[last.arg].media) = disk[last.arg]
    /\ gal[last.arg].media[1].path = 1

\* -------------------------------------------------------------- Shuffle

\* What a toggle of shuffle does to the active gallery g in the outcome w:
\* the flag is inverted, the list is an arrangement of the one it was, in
\* descending lastModified order when shuffle was turned off.
Toggled(w, g) ==
    /\ w.gal[g].isShuffled = JsNot(gal[g].isShuffled)
    /\ w.gal[g].media \in Arrangements(gal[g].media)
    /\ w.gal[g].isShuffled = "false" => Descending(w.gal[g].media)

\* C25: every toggle of shuffle made while a gallery is active inverts the
\* flag of that gallery, also when its media list is empty, and reorders the
\* current list (permuted when turned on, sorted by lastModified descending
\* when turned off) without a new scan of the folder.
C25_ToggleInverts ==
    LET g == At(galleries, activeGalleryIndex)
    IN  g # Undefined =>
            /\ \A w \in shuffleGallery(World) : Toggled(w, g)
            /\ gal[g].isShuffled = "false" =>
                  { w.gal[g].media : w \in shuffleGallery(World) }
                      = Arrangements(gal[g].media)

\* C25 as the code has it: the toggle acts on an active gallery that has
\* media; with an empty list it changes nothing, the flag included.
C25_ToggleInvertsIfMedia ==
    LET g == At(galleries, activeGalleryIndex)
    IN  /\ (g # Undefined /\ Len(gal[g].media) > 0) =>
              /\ \A w \in shuffleGallery(World) : Toggled(w, g)
              /\ gal[g].isShuffled = "false" =>
                    { w.gal[g].media : w \in shuffleGallery(World) }
                        = Arrangements(gal[g].media)
        /\ (g # Undefined /\ Len(gal[g].media) = 0) =>
              shuffleGallery(World) = {World}
        /\ (last.op = "shuffleGallery" /\ last.pre.c >= 0) => Count = last.pre.c

\* Shuffle was turned on in a gallery of three media, which left the oldest
\* of them first.
C25_Witness ==
    /\ last.op = "shuffleGallery"
    /\ last.pre.c = 3
    /\ gal[At(galleries, activeGalleryIndex)].isShuffled = "true"
    /\ gal[At(galleries, activeGalleryIndex)].media[1].path = 1
    /\ store[At(galleries, activeGalleryIndex)].isShuffled = "true"

\* C26: for a gallery that is not shuffled and whose folder does not change,
\* shuffle toggled on and then off leaves the media list equal, element by
\* element, to the list it held before, for every outcome of the
\* permutation, also when media share a lastModified.
C26_ShuffleRoundTrip ==
    LET g == At(galleries, activeGalleryIndex)
    IN  (g # Undefined /\ gal[g].isShuffled = "false" /\ ~Rescanning(g)) =>
            \A w1 \in shuffleGallery(World) : \A w2 \in shuffleGallery(w1) :
                w2.gal[g].media = gal[g].media

\* C27: in every reachable state no two descriptors of one gallery's media
\* list have the same path, also when two rescans of the gallery overlap.
C27_PathsUnique ==
    \A g \in GalleryIds :
        \A i, j \in 1..Len(gal[g].media) :
            i # j => gal[g].media[i].path # gal[g].media[j].path

\* The descriptors in the media lists of the galleries of the collection
\* whose URL is not revoked.
RECURSIVE Listed(_)
Listed(s) ==
    IF s = <<>> THEN 0
    ELSE (IF Head(s) = Undefined THEN 0
          ELSE Len(gal[Head(s)].media) - revoked[Head(s)]) + Listed(Tail(s))

\* The descriptors in the media lists of the galleries lo..hi that the load
\* or a creation is scanning and has not appended yet.
RECURSIVE InFlight(_, _)
InFlight(lo, hi) ==
    IF lo > hi THEN 0
    ELSE (IF \/ load.pc \in {"scanning", "listing", "files"}
                   /\ Head(load.queue).id = lo
             \/ create[lo].pc # "idle"
          THEN Len(gal[lo].media) ELSE 0) + InFlight(lo + 1, hi)

\* C28: in no reachable state does an unreleased content-access URL exist
\* whose descriptor is no longer in any gallery's media list: the URLs that
\* exist are as many as the descriptors the galleries list (closing a gallery
\* and starting a rescan release the URLs of the descriptors they drop).
C28_UrlsReleased ==
    urls = Listed(galleries) + InFlight(1, MaxGalleries)

\* C29: after a createGallery that completes without failure the new gallery
\* is the last element of galleries, its order is its position there, the
\* store holds a record under its id with that order and isShuffled false, and
\* it is the active gallery, at media index 0, in Sequential mode.
C29_CreateAppends ==
    (last.op = "createGallery" /\ ~last.threw) =>
        LET id == last.arg
            pos == Len(galleries) - 1
        IN  /\ galleries # <<>>
            /\ galleries[Len(galleries)] = id
            /\ gal[id].order = pos
            /\ store[id] = [present |-> TRUE, order |-> pos, isShuffled |-> "false"]
            /\ activeGalleryIndex = pos
            /\ activeMediaIndex = 0
            /\ isRandomMode = "false"

\* C30: a createGallery requested with an empty name or with no folder chosen
\* is not attempted: the step leaves galleries, activeGalleryIndex and the
\* store as they are, and starts no creation, scan or permission request
\* (no task changes, no URL is made, the loading indicator stays as it is).
C30_InvalidCreateRefused ==
    [][ (\E name \in GalleryNames, chosen \in BOOLEAN :
            /\ name = "" \/ ~chosen
            /\ (CreateInvalid(name, chosen) \/ CreateStart(name, chosen)))
        => UNCHANGED <<jsVars, envVars, taskVars>> ]_vars

\* A refused request in a session that has galleries.
C30_Witness ==
    /\ last.op = "createInvalid" /\ galleries # <<>>
    /\ \A id \in GalleryIds : create[id].pc = "idle"

\* C31: a failure of a record-store call made inside createGallery,
\* closeGallery or shuffleGallery is caught within the operation: none of
\* them ends with an uncaught error when the call it makes on the store
\* fails (the connection is null or closed and the call is reached).
C31_StoreFailuresCaught ==
    (last.threw /\ db # "open") =>
        /\ last.op # "createGallery"
        /\ last.op = "closeGallery" => At(last.pre.gs, last.arg) = Undefined
        /\ last.op = "shuffleGallery" => last.pre.c <= 0

\* C32: a failure does not roll back what earlier steps of the operation
\* achieved: when createGallery has scanned the folder and its write to the
\* store fails, the gallery is in galleries all the same.
C32_ScanKeptWhenSaveFails ==
    (last.op = "createGallery" /\ db # "open" /\ gal[last.arg].media # <<>>) =>
        \E i \in 1..Len(galleries) : galleries[i] = last.arg

\* ---------------------------------------------------------------- Import

\* The text after the last '.' of a name that has one.
AfterLastDot(n) ==
    LET k == CHOOSE k \in 1..Len(n) :
                 n[k] = "." /\ \A j \in (k + 1)..Len(n) : n[j] # "."
    IN  SubSeq(n, k + 1, Len(n))

\* prefix + timestamp + '.' + ext for a given ext.
NamedWith(type, time, ext) ==
    LET prefix == IF Len(type) >= 6 /\ SubSeq(type, 1, 6) = <<"i", "m", "a", "g", "e", "/">> THEN <<"i", "m", "a", "g", "e">>
                  ELSE IF Len(type) >= 6 /\ SubSeq(type, 1, 6) = <<"v", "i", "d", "e", "o", "/">> THEN <<"v", "i", "d", "e", "o">>
                  ELSE <<"f", "i", "l", "e">>
        stamp == [i \in 1..Len(time) |-> IF time[i] \in {":", "."} THEN "-" ELSE time[i]]
    IN  prefix \o stamp \o <<".">> \o ext

\* The extension mapped from the MIME subtype: what the map holds for the
\* subtype, the subtype itself when the map holds nothing for it, and 'bin'
\* when the type gives no subtype.
MimeOrBin(type) ==
    LET subtype == IF Has(type, "/") THEN SubtypeOf(type) ELSE <<>>
    IN  IF subtype = <<>> THEN <<"b", "i", "n">>
        ELSE IF OwnEntry(subtype) # <<>> THEN OwnEntry(subtype)
        ELSE subtype

\* C33: the imported file is stored under prefix + timestamp + '.' + ext:
\* prefix by the MIME type, timestamp the ISO time with ':' and '.' replaced
\* by '-', ext the lower-cased text after the last '.' of the original name
\* if the name has one, otherwise the extension mapped from the MIME
\* subtype, otherwise 'bin'.
C33_ImportName ==
    (naming.pc = "done" /\ naming.time # <<>>) =>
        naming.filename =
            NamedWith(naming.type, naming.time,
                      IF Has(naming.name, ".")
                      THEN toLowerCase(AfterLastDot(naming.name))
                      ELSE MimeOrBin(naming.type))

\* The same with "has one" read as "has a text after its last '.'": a name
\* that ends with '.' is treated as a name without extension.
C33_ImportNameUnlessEmpty ==
    (naming.pc = "done" /\ naming.time # <<>>) =>
        naming.filename =
            NamedWith(naming.type, naming.time,
                      IF Has(naming.name, ".") /\ AfterLastDot(naming.name) # <<>>
                      THEN toLowerCase(AfterLastDot(naming.name))
                      ELSE MimeOrBin(naming.type))

\* The same again for the types whose subtype is no property of
\* Object.prototype.
C33_ImportNameOwnKeys ==
    (naming.pc = "done" /\ naming.time # <<>>
        /\ (Has(naming.type, "/") => InheritedEntry(SubtypeOf(naming.type)) = <<>>)) =>
        naming.filename =
            NamedWith(naming.type, naming.time,
                      IF Has(naming.name, ".") /\ AfterLastDot(naming.name) # <<>>
                      THEN toLowerCase(AfterLastDot(naming.name))
                      ELSE MimeOrBin(naming.type))

\* The scenario of the spec: a video/webm blob named clip.
C33_Witness ==
    /\ naming.pc = "done"
    /\ naming.name = <<"c", "l", "i", "p">>
    /\ naming.type = <<"v", "i", "d", "e", "o", "/", "w", "e", "b", "m">>
    /\ naming.filename = <<"v", "i", "d", "e", "o">> \o ReplaceColonsAndDots(naming.time) \o <<".", "w", "e", "b", "m">>

\* ----------------------------------------------------------- Interleaving

\* C34: a closeGallery that removes an entry from the collection removes
\* exactly the gallery it was asked to close, which is the one whose URLs it
\* released and whose record it deleted, also after other closes and
\* reorders; the galleries that stay keep their URLs and their records.
C34_CloseRemovesWhatItReleased ==
    (last.op = "closeGallery" /\ Len(galleries) < last.pre.n) =>
        LET g == At(last.pre.gs, last.arg)
        IN  /\ g # Undefined
            /\ galleries = Without(last.pre.gs, last.arg)
            /\ revoked[g] = Len(gal[g].media)
            /\ ~store[g].present
            /\ \A k \in 1..Len(galleries) :
                  galleries[k] # Undefined =>
                      /\ galleries[k] # g
                      /\ revoked[galleries[k]] = 0
                      /\ store[galleries[k]].present

\* The second of two closes: both galleries had media, both are released
\* and deleted, the collection is empty.
C34_Witness ==
    /\ last.op = "closeGallery" /\ ~last.threw
    /\ galleries = <<>>
    /\ \A g \in GalleryIds :
          /\ gal[g].made /\ gal[g].media # <<>>
          /\ revoked[g] = Len(gal[g].media)
          /\ ~store[g].present

\* C35: once the close of a gallery has completed, the store never holds a
\* record with its id again: no step gives a record to a gallery of this
\* session that has none and is not being created (a gallery is in the
\* collection only with its record written, so these are the closed ones).
C35_ClosedStaysDeleted ==
    [][ \A g \in GalleryIds :
           (gal[g].made /\ ~store[g].present /\ create[g].pc = "idle")
               => ~store'[g].present ]_vars

\* A reorder wrote the records of the collection after a gallery was closed:
\* the closed gallery has no record, the one that is left has its own.
C35_Witness ==
    /\ last.op = "handleTabDrop" /\ ~last.threw
    /\ last.arg = NaN /\ last.pre.n = 1
    /\ galleries # <<>>
    /\ store[galleries[1]].present
    /\ \E g \in GalleryIds :
          /\ gal[g].made /\ gal[g].media # <<>> /\ ~store[g].present
          /\ create[g].pc = "idle" /\ revoked[g] = Len(gal[g].media)

\* C36: every media descriptor of every gallery of the collection has a
\* URL that is not released: the release made by closeGallery is never seen
\* on a gallery that is still in the collection, also when the delete of
\* its record fails.
C36_CollectionUrlsLive ==
    \A k \in 1..Len(galleries) :
        galleries[k] # Undefined => revoked[galleries[k]] = 0

\* C37: the files of a drop are written to the folder of the gallery that
\* was active at the drop and the rescan that follows is of that gallery,
\* also when another tab is clicked or the gallery is closed while a write
\* is pending: when the write of the last file has ended in the folder of
\* gallery g, the handler goes on to rescan g.
C37_ImportKeepsGallery ==
    last.op = "written" =>
        (import["drop"].pc = "scanning" /\ import["drop"].g = last.arg)

\* How many entries of s are x.
Times(s, x) == Cardinality({ i \in 1..Len(s) : s[i] = x })

\* C38: a drop on a tab only permutes the collection: after any drop event
\* on a tab, with or without a tab drag in progress and whatever the target,
\* galleries holds the galleries it held before, each as often, and nothing
\* else.
C38_DropPermutes ==
    last.op = "handleTabDrop" =>
        /\ Len(galleries) = Len(last.pre.gs)
        /\ \A x \in GalleryIds \cup {Undefined} :
              Times(galleries, x) = Times(last.pre.gs, x)

\* A close, completed without failure, of a gallery that was not the active
\* one, while a gallery was active.
ClosedAnother ==
    /\ last.op = "closeGallery" /\ ~last.threw
    /\ At(last.pre.gs, last.pre.a) # Undefined
    /\ At(last.pre.gs, last.arg) # At(last.pre.gs, last.pre.a)

\* C39: closing a gallery other than the active one leaves the active
\* gallery (the same gallery, not the same index), activeMediaIndex,
\* isRandomMode and previousMediaIndex unchanged.
C39_CloseOtherKeepsNavigation ==
    ClosedAnother =>
        /\ At(galleries, activeGalleryIndex) = At(last.pre.gs, last.pre.a)
        /\ activeMediaIndex = last.pre.m
        /\ isRandomMode = last.pre.r
        /\ previousMediaIndex = last.pre.p

\* C39 as it holds: the same gallery stays active and is selected again,
\* which puts the navigation at its start: media index 0, Sequential mode,
\* no previous index.
C39_CloseOtherReselects ==
    ClosedAnother =>
        /\ At(galleries, activeGalleryIndex) = At(last.pre.gs, last.pre.a)
        /\ activeMediaIndex = 0
        /\ isRandomMode = "false"
        /\ previousMediaIndex = -1

\* The other gallery was closed while the active one was past its first
\* item in Random mode.
C39_Witness ==
    /\ ClosedAnother
    /\ last.pre.m > 0 /\ last.pre.r = "true"
    /\ activeMediaIndex = 0

\* C40: whenever the loading indicator is shown, by the load at start or by
\* a creation, it is hidden again later, whether the scans and the store
\* calls of the operation succeed or fail.
C40_IndicatorHidden == loading ~> ~loading


====
